---------------------------- MODULE Spec2Model ----------------------------
(***************************************************************************)
(* Model of metrics-report: the webhook idempotency store (webhook_db.py,  *)
(* webhook_app.py), the Google Sheets helpers (sheets.py), the customers   *)
(* aggregation (customers.py) and the feed pipeline (pipeline.py).         *)
(*                                                                         *)
(* Conventions.  A "YYYY-MM-DD" string is the integer yyyymmdd, so that    *)
(* Python's string comparison of two such strings is integer comparison.   *)
(* Every subsystem has its own specification over its own variables; the   *)
(* variables of the other subsystems are pinned by the Idle predicates.    *)
(***************************************************************************)
EXTENDS Integers, Sequences, FiniteSets, TLC

VARIABLES
    \* ---- webhook store (sqlite file shared by all connections)
    seen_carts,     \* table seen_carts: cart_token -> date, NoDate when absent
    daily_counts,   \* table daily_counts: <<date, metric>> -> count (0 = no row)
    writeLock,      \* sqlite's database write lock: 0 (free) or the holder
    deliveries,     \* one record per webhook delivery (a request handler)
    deleted,        \* what the last cleanup_old_carts returned (cursor.rowcount)
    evictions,      \* cart_token -> how many times a cleanup deleted its record
    before_date,    \* the before_date of the last cleanup_old_carts call
    \* ---- one sheet under consolidate_sum_by_date
    table,          \* the sheet now
    prevTable,      \* the sheet before the last consolidate_sum_by_date
    consLog,        \* what each call so far did: [raised, ret, wrote]
    \* ---- the customers sheet under sync_consolidado_customers
    custSheet,      \* the customers sheet now
    custShop,       \* the paid orders the shop holds, in the order it returns them
    custRun,        \* what the last pass did (NoRun before the first)
    \* ---- run_pipeline over the feeds' sheets
    pStore,         \* feed -> the feed's sheet now
    pRun,           \* the arguments and surroundings of the run under way
    pPc,            \* the step run_pipeline is at
    pErrors,        \* errors: the feeds whose exception was collected
    pLog,           \* the passes of this run in order: [feed, before, pass]
    pOutcome,       \* how the run ended
    pHist,          \* over all runs: the dates appended, by feed and run
    \* ---- the aggregates of one pass of sync_consolidado_customers
    mIn,            \* what the pass reads: the sheet, internal_added, the orders, the config
    mRows,          \* the data rows the reload loop has merged so far
    mLeft,          \* the fetched orders (their positions) not merged yet
    mAggs,          \* aggregates: e-mail -> CustomerAggregate, now
    mMaxLast,       \* max_last: the latest last purchase the reload loop has read
    mPrev,          \* aggregates before the last step
    mStep,          \* the last step: "none", "reload", "emails", "backfill" or "order"
    \* ---- one call of sensitivity_label
    sens,           \* its arguments, and the label once it has returned
    \* ---- one call of request_json
    http            \* max_retries, attempt, the responses so far, how it ended

webVars == <<seen_carts, daily_counts, writeLock, deliveries, deleted, evictions, before_date>>
consVars == <<table, prevTable, consLog>>
custVars == <<custSheet, custShop, custRun>>
pipeVars == <<pStore, pRun, pPc, pErrors, pLog, pOutcome, pHist>>
mergeVars == <<mIn, mRows, mLeft, mAggs, mMaxLast, mPrev, mStep>>

vars == <<webVars, consVars, custVars, pipeVars, mergeVars, sens, http>>

\* What the actions of one subsystem leave alone.
exceptWeb == <<consVars, custVars, pipeVars, mergeVars, sens, http>>
exceptCons == <<webVars, custVars, pipeVars, mergeVars, sens, http>>
exceptCust == <<webVars, consVars, pipeVars, mergeVars, sens, http>>
exceptPipe == <<webVars, consVars, custVars, mergeVars, sens, http>>
exceptMerge == <<webVars, consVars, custVars, pipeVars, sens, http>>
exceptLabel == <<webVars, consVars, custVars, pipeVars, mergeVars, http>>
exceptHttp == <<webVars, consVars, custVars, pipeVars, mergeVars, sens>>

-----------------------------------------------------------------------------
(* Bounds *)

NumDeliveries == 3
MaxRows == 3        \* data rows of a sheet under consolidation
MaxConsRuns == 2    \* consecutive consolidate_sum_by_date calls
MaxCustRows == 2    \* data rows of the customers sheet before the first pass
MaxFeedRows == 2    \* data rows of a feed's sheet before the first run
MaxRuns == 2        \* consecutive runs of run_pipeline on one feed
MaxOrders == 3      \* orders fetched in one pass of the customers sync
MaxCount == 12      \* orders, and discounted orders, of an aggregate to label
MaxRetries == 3     \* max_retries of a request_json call (3 is its default)


-----------------------------------------------------------------------------
(***************************************************************************)
(* Dates (datetime.date as used by dates.py and sheets.py)                 *)
(***************************************************************************)

\* A date string dddd-dd-dd is written as the number its digits yyyymmdd
\* read, "0000-00-00" as 0; string comparison is then the order of the
\* numbers.  None is below every string.
NoYmd == -1         \* None: no date

YearOf(ymd) == ymd \div 10000
MonthOf(ymd) == (ymd \div 100) % 100
DayOf(ymd) == ymd % 100
MkYmd(y, m, d) == y * 10000 + m * 100 + d

IsLeap(y) == y % 4 = 0 /\ (y % 100 # 0 \/ y % 400 = 0)

DaysInMonth(y, m) ==
    IF m = 2 THEN (IF IsLeap(y) THEN 29 ELSE 28)
    ELSE IF m \in {4, 6, 9, 11} THEN 30 ELSE 31

\* datetime.date(y, m, d) raises ValueError unless this holds.
ValidDate(y, m, d) ==
    /\ y >= 1 /\ y <= 9999
    /\ m >= 1 /\ m <= 12
    /\ d >= 1 /\ d <= DaysInMonth(y, m)

DaysBeforeYear(y) ==
    (y - 1) * 365 + (y - 1) \div 4 - (y - 1) \div 100 + (y - 1) \div 400

RECURSIVE DaysBeforeMonth(_, _)
DaysBeforeMonth(y, m) ==
    IF m <= 1 THEN 0 ELSE DaysBeforeMonth(y, m - 1) + DaysInMonth(y, m - 1)

\* date.toordinal(): 0001-01-01 is day 1.
ToOrdinal(ymd) ==
    DaysBeforeYear(YearOf(ymd)) + DaysBeforeMonth(YearOf(ymd), MonthOf(ymd)) + DayOf(ymd)

RECURSIVE MonthFromDayOfYear(_, _, _)
MonthFromDayOfYear(y, m, n) ==
    IF n <= DaysInMonth(y, m) THEN MkYmd(y, m, n)
    ELSE MonthFromDayOfYear(y, m + 1, n - DaysInMonth(y, m))

MaxOrdinal == 3652059      \* date.max = 9999-12-31

\* date.fromordinal(n) for 1 <= n <= MaxOrdinal.
FromOrdinal(n) ==
    LET n0 == n - 1
        n400 == n0 \div 146097
        r400 == n0 % 146097
        n100 == r400 \div 36524
        r100 == r400 % 36524
        n4 == r100 \div 1461
        r4 == r100 % 1461
        n1 == r4 \div 365
        r1 == r4 % 365
        y == n400 * 400 + n100 * 100 + n4 * 4 + n1 + 1
    IN IF n1 = 4 \/ n100 = 4 THEN MkYmd(y - 1, 12, 31)
       ELSE MonthFromDayOfYear(y, 1, r1 + 1)

\* dates.add_days on a valid date (the result stays inside date.min..date.max
\* for every date of the model).
add_days(ymd, days) == FromOrdinal(ToOrdinal(ymd) + days)

\* dates.parse_ymd on a string of the shape dddd-dd-dd: date(y, m, d), which
\* raises ValueError when the digits are no calendar date ("0000-00-00" is
\* none).  Nothing is parsed when there is no string (NoYmd).
ParseYmdRaises(ymd) ==
    ymd # NoYmd /\ ~ValidDate(YearOf(ymd), MonthOf(ymd), DayOf(ymd))

SheetsEpochOrdinal == 693594    \* date(1899, 12, 30).toordinal()

\* sheets._sheets_serial_to_date: days since 1899-12-30, None unless positive
\* and inside the calendar.
sheets_serial_to_date(value) ==
    IF value <= 0 THEN NoYmd
    ELSE IF SheetsEpochOrdinal + value > MaxOrdinal THEN NoYmd
    ELSE FromOrdinal(SheetsEpochOrdinal + value)

-----------------------------------------------------------------------------
(***************************************************************************)
(* Sheet cells and their coercion (sheets.py)                              *)
(*                                                                         *)
(* A cell is [k, v].  k is the shape of the value the Sheets API returns:  *)
(*   "blank"   ""  or a cell the API leaves out                            *)
(*   "iso"     a string dddd-dd-dd; v are its digits yyyymmdd              *)
(*   "dmy"     a string dd/mm/yyyy, day and month of two digits; v is      *)
(*             yyyy*10000 + mm*100 + dd                                    *)
(*   "dmyh"    a string dd-mm-yyyy, likewise                               *)
(*   "ts"      a longer string whose first 10 characters are dddd-dd-dd;   *)
(*             v are the digits of those                                   *)
(*   "numstr"  the decimal digits of a whole number v, as str(v) writes    *)
(*             them: "5", "-3"                                             *)
(*   "decimal" a whole number v written with a decimal comma and one       *)
(*             decimal: "3,0", "-3,0"                                      *)
(*   "text"    a non-empty string without a digit; v tells such strings    *)
(*             apart                                                       *)
(*   "phone"   a phone number as an order carries it; v tells such strings *)
(*             apart, and no coercion is defined on them                   *)
(*   "num"     a JSON number, the whole number v                           *)
(***************************************************************************)

Cell(k, v) == [k |-> k, v |-> v]
Blank == Cell("blank", 0)
IsoCell(ymd) == Cell("iso", ymd)

\* sheets._coerce_cell_to_ymd: the string itself when it matches _YMD_RE,
\* date(y, m, d).isoformat() when it matches _DMY_RE (None when date()
\* raises), the first ten characters of a timestamp, the date of a serial.
coerce_cell_to_ymd(c) ==
    CASE c.k \in {"iso", "ts"} -> c.v
      [] c.k \in {"dmy", "dmyh"} ->
            IF ValidDate(YearOf(c.v), MonthOf(c.v), DayOf(c.v)) THEN c.v ELSE NoYmd
      [] c.k = "num" -> sheets_serial_to_date(c.v)
      [] c.k \in {"blank", "numstr", "decimal", "text"} -> NoYmd

\* sheets._coerce_cell_to_number: <<TRUE, n>> or <<FALSE, 0>> for None.
\* float() of the string, its commas read as points.
coerce_cell_to_number(c) ==
    CASE c.k \in {"num", "numstr", "decimal"} -> <<TRUE, c.v>>
      [] c.k \in {"blank", "iso", "dmy", "dmyh", "ts", "text"} -> <<FALSE, 0>>

(***************************************************************************)
(* A sheet is [header, rows]: row 1 and the data rows below it, every row  *)
(* as wide as the sheet.                                                   *)
(***************************************************************************)

Sheet(header, rows) == [header |-> header, rows |-> rows]

CellAt(sheet, r, c) ==
    IF r <= Len(sheet.rows) /\ c <= Len(sheet.rows[r]) THEN sheet.rows[r][c] ELSE Blank

RECURSIVE LastNonBlank(_, _, _)
LastNonBlank(sheet, c, r) ==
    IF r = 0 THEN 0
    ELSE IF CellAt(sheet, r, c) # Blank THEN r ELSE LastNonBlank(sheet, c, r - 1)

\* GoogleSheetsClient.get_values(sheet, "X2:X"): the column below the header;
\* the API drops the trailing empty rows.
get_values(sheet, c) ==
    [r \in 1..LastNonBlank(sheet, c, Len(sheet.rows)) |-> CellAt(sheet, r, c)]

\* next((i for i, h in enumerate(header) if h in names), None); 0 for None.
RECURSIVE FirstHeaderIn(_, _, _)
FirstHeaderIn(header, names, i) ==
    IF i > Len(header) THEN 0
    ELSE IF header[i] \in names THEN i ELSE FirstHeaderIn(header, names, i + 1)

Max2(a, b) == IF a >= b THEN a ELSE b
Min2(a, b) == IF a <= b THEN a ELSE b

RECURSIVE MaxOfSet(_)
MaxOfSet(S) ==
    IF S = {} THEN 0
    ELSE LET x == CHOOSE y \in S : TRUE IN Max2(x, MaxOfSet(S \ {x}))

\* max(dates) if dates else None
MaxYmd(S) == IF S = {} THEN NoYmd ELSE CHOOSE x \in S : \A y \in S : y <= x

RECURSIVE SortAscending(_)
SortAscending(S) ==
    IF S = {} THEN <<>>
    ELSE LET m == CHOOSE x \in S : \A y \in S : x <= y
         IN <<m>> \o SortAscending(S \ {m})

SeqToSet(q) == {q[i] : i \in 1..Len(q)}

(***************************************************************************)
(* GoogleSheetsClient.consolidate_sum_by_date                              *)
(***************************************************************************)

\* Mutant: the last number of a group replaces its total.
AccumulateLast(acc, number) == number

\* acc[col_idx] += number
Accumulate(acc, number) == acc + number

\* The loop of lines 307-325 over rows 1..n: keys is the dict's keys in
\* insertion order, occ the occurrences, tot the totals of the sum column.
RECURSIVE GroupRows(_, _, _)
GroupRows(date_values, sum_values, n) ==
    IF n = 0 THEN [keys |-> <<>>, occ |-> <<>>, tot |-> <<>>]
    ELSE LET g == GroupRows(date_values, sum_values, n - 1)
             date_cell == IF n <= Len(date_values) THEN date_values[n] ELSE Blank
             ymd == coerce_cell_to_ymd(date_cell)
             cell == IF n <= Len(sum_values) THEN sum_values[n] ELSE Blank
             number == coerce_cell_to_number(cell)
             add == IF number[1] THEN number[2] ELSE 0
             at == CHOOSE i \in 0..Len(g.keys) :
                      IF \E j \in 1..Len(g.keys) : g.keys[j] = ymd
                      THEN i > 0 /\ g.keys[i] = ymd ELSE i = 0
         IN IF ymd = NoYmd THEN g
            ELSE IF at = 0
                 THEN [keys |-> Append(g.keys, ymd),
                       occ |-> Append(g.occ, 1),
                       tot |-> Append(g.tot, add)]
                 ELSE [keys |-> g.keys,
                       occ |-> [g.occ EXCEPT ![at] = @ + 1],
                       tot |-> [g.tot EXCEPT ![at] = Accumulate(@, add)]]

RECURSIVE SumSeq(_)
SumSeq(q) == IF q = <<>> THEN 0 ELSE Head(q) + SumSeq(Tail(q))

\* Mutant: one row counted for every date that occurs more than once.
DuplicatesRemovedPerDate(occ) ==
    SumSeq([i \in 1..Len(occ) |-> IF occ[i] > 1 THEN 1 ELSE 0])

\* duplicates_removed = sum(count - 1 for count in occurrences.values() if count > 1)
DuplicatesRemoved(occ) ==
    SumSeq([i \in 1..Len(occ) |-> IF occ[i] > 1 THEN occ[i] - 1 ELSE 0])

\* Mutant: the table is rewritten whenever it has data rows.
NothingToConsolidateNever(duplicates_removed) == FALSE

\* "if duplicates_removed <= 0: return 0"
NothingToConsolidate(duplicates_removed) == duplicates_removed <= 0

\* Mutant: the dates are written in the order the rows were met.
SortedDatesAsMet(keys) == keys

\* sorted_dates = sorted(totals.keys())
SortedDates(keys) == SortAscending(SeqToSet(keys))

\* Mutant: the slots below the consolidated rows are not blanked.
PaddingNone(data_rows, rows_to_write) == 0

\* padding = max(data_rows - rows_to_write, 0)
Padding(data_rows, rows_to_write) == Max2(data_rows - rows_to_write, 0)

NoReturn == -1      \* the call raised instead of returning

\* Mutant: a range written to a column blanks the rest of the rows it
\* leaves blank in that column.
UpdateColumnClearingRows(sheet, c, values) ==
    Sheet(sheet.header,
          [r \in 1..Max2(Len(sheet.rows), Len(values)) |->
              [k \in 1..Len(sheet.header) |->
                  IF r <= Len(values) /\ (k = c \/ values[r] = Blank)
                  THEN (IF k = c THEN values[r] ELSE Blank)
                  ELSE CellAt(sheet, r, k)]])

\* One range "X2:X{data_rows + 1}" of a batch update: the given values go to
\* the data rows 1..Len(values) of column c, the rest of the sheet stays.
UpdateColumn(sheet, c, values) ==
    Sheet(sheet.header,
          [r \in 1..Max2(Len(sheet.rows), Len(values)) |->
              [k \in 1..Len(sheet.header) |->
                  IF k = c /\ r <= Len(values) THEN values[r] ELSE CellAt(sheet, r, k)]])

TotalOf(g, ymd) == g.tot[CHOOSE i \in 1..Len(g.keys) : g.keys[i] = ymd]

\* The result of consolidate_sum_by_date on `sheet` with one sum column:
\* raised (ValueError; ret is then NoReturn), ret (the int returned), wrote
\* (batch_update_values was called) and the sheet afterwards.
consolidate_sum_by_date(sheet, date_headers, sum_header) ==
    LET header == sheet.header
        date_col_idx == FirstHeaderIn(header, date_headers, 1)
        sum_col_idx == FirstHeaderIn(header, {sum_header}, 1)
        unchanged == [raised |-> FALSE, ret |-> 0, wrote |-> FALSE, sheet |-> sheet]
    IN IF header = <<>> \/ date_col_idx = 0 \/ sum_col_idx = 0
       THEN [unchanged EXCEPT !.raised = TRUE, !.ret = NoReturn]
       ELSE
        LET date_values == get_values(sheet, date_col_idx)
            sum_values == get_values(sheet, sum_col_idx)
            data_rows == Max2(Len(date_values), Len(sum_values))
            g == GroupRows(date_values, sum_values, data_rows)
            duplicates_removed == DuplicatesRemoved(g.occ)
            sorted_dates == SortedDates(g.keys)
            rows_to_write == Min2(Len(sorted_dates), data_rows)
            padding == Padding(data_rows, rows_to_write)
            date_update == [i \in 1..(rows_to_write + padding) |->
                               IF i <= rows_to_write THEN IsoCell(sorted_dates[i]) ELSE Blank]
            sum_update == [i \in 1..(rows_to_write + padding) |->
                               IF i <= rows_to_write
                               THEN Cell("num", TotalOf(g, sorted_dates[i])) ELSE Blank]
        IN IF data_rows <= 0 THEN unchanged
           ELSE IF NothingToConsolidate(duplicates_removed) THEN unchanged
           ELSE [raised |-> FALSE, ret |-> duplicates_removed, wrote |-> TRUE,
                 sheet |-> UpdateColumn(UpdateColumn(sheet, date_col_idx, date_update),
                                        sum_col_idx, sum_update)]

-----------------------------------------------------------------------------
(***************************************************************************)
(* Customers sheet (customers.py)                                          *)
(*                                                                         *)
(* Strings of the customers sheet are "text" cells: the e-mail addresses   *)
(*   11 "ana@x.cl"   12 " Ana@X.cl"   21 "bob@x.cl"   31 "eva@x.cl"        *)
(* in the order of their codes, the names of the orders (4xx), the notes   *)
(* of the free columns (1xx) and the sensitivity labels (9xx).  The phones *)
(* of the orders (4xx) are "phone" cells.  Amounts of money are whole      *)
(* units.                                                                  *)
(***************************************************************************)

SENSITIVITY_COLUMN == "Sensibilidad a descuento (Alta +80%, Media 60%, Baja 40%)"

DEFAULT_CONSOLIDADO_HEADER ==
    <<"Nombre", "Email", "Teléfono", "Frecuency", "Recency", "Money",
      SENSITIVITY_COLUMN, "Buy_reason", "Occasion_trigger", "Desired_outcome">>

INTERNAL_COLUMNS ==
    <<"__last_purchase_ymd", "__discounted_orders", "__total_orders", "__money_units">>

\* customers._normalize_header: str(value or "").strip().lower(), on the
\* header strings of the model.
normalize_header(h) ==
    CASE h = "Nombre" -> "nombre"
      [] h = "Email" -> "email"
      [] h = " EMAIL" -> "email"
      [] h = "Teléfono" -> "teléfono"
      [] h = "Telefono" -> "telefono"
      [] h = "Frecuency" -> "frecuency"
      [] h = "Recency" -> "recency"
      [] h = "Money" -> "money"
      [] h = SENSITIVITY_COLUMN ->
            "sensibilidad a descuento (alta +80%, media 60%, baja 40%)"
      [] h = "Sensibilidad a descuento" -> "sensibilidad a descuento"
      [] h = "Sensibilidad a descuento 2024" -> "sensibilidad a descuento 2024"
      [] h = "Buy_reason" -> "buy_reason"
      [] h = "Occasion_trigger" -> "occasion_trigger"
      [] h = "Desired_outcome" -> "desired_outcome"
      [] h = "Nota" -> "nota"
      [] OTHER -> h

\* cell.startswith(w) on normalised header strings.
StartsWith(cell, w) ==
    \/ cell = w
    \/ /\ w = "sensibilidad a descuento"
       /\ cell \in {"sensibilidad a descuento (alta +80%, media 60%, baja 40%)",
                    "sensibilidad a descuento 2024"}

\* customers._find_header_idx; 0 for None, columns count from 1.
RECURSIVE find_header_idx_from(_, _, _, _)
find_header_idx_from(header, wanted, prefix, i) ==
    IF i > Len(header) THEN 0
    ELSE LET cell == normalize_header(header[i])
         IN IF cell # "" /\ \E w \in wanted :
                              w # "" /\ (cell = w \/ (prefix /\ StartsWith(cell, w)))
            THEN i
            ELSE find_header_idx_from(header, wanted, prefix, i + 1)

find_header_idx(header, name, aliases, prefix) ==
    find_header_idx_from(header, {normalize_header(w) : w \in {name} \cup aliases}, prefix, 1)

\* The `required` list of _ensure_consolidado_header: <<name, aliases, prefix>>.
RequiredColumns ==
    <<  <<"Nombre", {}, FALSE>>,
        <<"Email", {}, FALSE>>,
        <<"Teléfono", {"Telefono"}, FALSE>>,
        <<"Frecuency", {}, FALSE>>,
        <<"Recency", {}, FALSE>>,
        <<"Money", {}, FALSE>>,
        <<SENSITIVITY_COLUMN, {"Sensibilidad a descuento"}, TRUE>> >>

\* The two loops of _ensure_consolidado_header: every column of `columns`
\* from the i-th on that the header lacks is appended to it.
RECURSIVE AppendMissing(_, _, _)
AppendMissing(header, columns, i) ==
    IF i > Len(columns) THEN header
    ELSE LET col == columns[i]
         IN AppendMissing(
                IF find_header_idx(header, col[1], col[2], col[3]) = 0
                THEN Append(header, col[1]) ELSE header,
                columns, i + 1)

InternalAsRequired == [i \in 1..Len(INTERNAL_COLUMNS) |-> <<INTERNAL_COLUMNS[i], {}, FALSE>>]

\* update_values(sheet, "A1", [header]): row 1 from column A on.
WriteHeader(sheet, header) ==
    Sheet([k \in 1..Max2(Len(sheet.header), Len(header)) |->
              IF k <= Len(header) THEN header[k] ELSE sheet.header[k]],
          sheet.rows)

\* customers._ensure_consolidado_header: the header it returns, whether the
\* internal columns were missing, whether it wrote row 1, the sheet afterwards.
ensure_consolidado_header(sheet) ==
    LET existing == sheet.header
        with_required == AppendMissing(existing, RequiredColumns, 1)
        header == AppendMissing(with_required, InternalAsRequired, 1)
    IN IF existing = <<>>
       THEN [header |-> DEFAULT_CONSOLIDADO_HEADER \o INTERNAL_COLUMNS,
             internal_missing |-> TRUE, wrote |-> TRUE,
             sheet |-> WriteHeader(sheet, DEFAULT_CONSOLIDADO_HEADER \o INTERNAL_COLUMNS)]
       ELSE [header |-> header,
             internal_missing |-> header # with_required,
             wrote |-> header # existing,
             sheet |-> IF header # existing THEN WriteHeader(sheet, header) ELSE sheet]

NoEmail == Blank    \* None: the row or the order has no e-mail address

\* value.strip().lower() on the strings of the model: " Ana@X.cl" (12)
\* becomes "ana@x.cl" (11).
StripLower(c) == IF c.k = "text" /\ c.v = 12 THEN Cell("text", 11) ELSE c

\* customers._normalize_email
normalize_email(c) == IF c.k \in {"blank", "num"} THEN NoEmail ELSE StripLower(c)

\* customers._coerce_int: <<TRUE, n>> or <<FALSE, 0>> for None.  int() of
\* the digits and hyphens of the string: "3,0" reads 30, "03/01/2025" reads
\* 3012025, and a string with a hyphen after a digit reads nothing.
coerce_int(c) ==
    CASE c.k \in {"num", "numstr"} -> <<TRUE, c.v>>
      [] c.k = "decimal" -> <<TRUE, 10 * c.v>>
      [] c.k = "dmy" -> <<TRUE, DayOf(c.v) * 1000000 + MonthOf(c.v) * 10000 + YearOf(c.v)>>
      [] c.k \in {"blank", "iso", "dmyh", "ts", "text"} -> <<FALSE, 0>>

\* customers._coerce_float, same convention.  float() of the digits,
\* commas, points and hyphens of the string, a comma read as the decimal
\* point when the string has no point.
coerce_float(c) ==
    CASE c.k \in {"num", "numstr", "decimal"} -> <<TRUE, c.v>>
      [] c.k = "dmy" -> <<TRUE, DayOf(c.v) * 1000000 + MonthOf(c.v) * 10000 + YearOf(c.v)>>
      [] c.k \in {"blank", "iso", "dmyh", "ts", "text"} -> <<FALSE, 0>>

\* Python's `a or b` on two optional numbers: a unless it is None or 0.
PyOr(a, b) == IF a[1] /\ a[2] # 0 THEN a ELSE b

\* A number or "" as the cell it becomes when written.
NumCell(n) == Cell("num", n)
TextCell(code) == IF code = 0 THEN Blank ELSE Cell("text", code)
PhoneCell(code) == IF code = 0 THEN Blank ELSE Cell("phone", code)

\* CustomerAggregate(email) with its defaults; names and phones are codes
\* of strings, 0 the empty string.
NewAggregate ==
    [name |-> 0, phone |-> 0, total_orders |-> 0, discounted_orders |-> 0,
     money_units |-> 0, last_purchase_ymd |-> NoYmd]

\* aggregates[email] = agg
SetAgg(aggregates, email, agg) ==
    [e \in DOMAIN aggregates \cup {email} |-> IF e = email THEN agg ELSE aggregates[e]]

\* aggregates.get(email), a new CustomerAggregate when absent
GetAgg(aggregates, email) ==
    IF email \in DOMAIN aggregates THEN aggregates[email] ELSE NewAggregate

\* The column indices sync_consolidado_customers resolves (lines 227-239).
ColumnIndices(header) ==
    [email |-> find_header_idx(header, "Email", {}, FALSE),
     freq |-> find_header_idx(header, "Frecuency", {}, FALSE),
     recency |-> find_header_idx(header, "Recency", {}, FALSE),
     money |-> find_header_idx(header, "Money", {}, FALSE),
     sensitivity |-> find_header_idx(header, SENSITIVITY_COLUMN,
                                     {"Sensibilidad a descuento"}, TRUE),
     last |-> find_header_idx(header, "__last_purchase_ymd", {}, FALSE),
     discounted |-> find_header_idx(header, "__discounted_orders", {}, FALSE),
     total |-> find_header_idx(header, "__total_orders", {}, FALSE),
     money_units |-> find_header_idx(header, "__money_units", {}, FALSE),
     name |-> find_header_idx(header, "Nombre", {}, FALSE),
     phone |-> find_header_idx(header, "Teléfono", {"Telefono"}, FALSE)]

\* get_values(sheet, "A1:<last column of the header>") minus its header row:
\* the number of data rows, the API dropping the trailing empty rows.
RECURSIVE LastNonEmptyRow(_, _, _)
LastNonEmptyRow(sheet, width, r) ==
    IF r = 0 THEN 0
    ELSE IF \E c \in 1..width : CellAt(sheet, r, c) # Blank THEN r
    ELSE LastNonEmptyRow(sheet, width, r - 1)

DataRows(sheet, width) == LastNonEmptyRow(sheet, width, Len(sheet.rows))

\* Lines 283-288: what data row n says of its customer: total (from
\* __total_orders, else Frecuency, else 0), discounted, raw_units (from
\* __money_units, else Money, else 0) and last_ymd.
RowValues(sheet, idx, n) ==
    LET units == coerce_float(CellAt(sheet, n, idx.money_units))
    IN [total |-> PyOr(PyOr(coerce_int(CellAt(sheet, n, idx.total)),
                            coerce_int(CellAt(sheet, n, idx.freq))), <<TRUE, 0>>)[2],
        discounted |-> PyOr(coerce_int(CellAt(sheet, n, idx.discounted)), <<TRUE, 0>>)[2],
        raw_units |-> IF units[1] THEN units[2]
                      ELSE PyOr(coerce_float(CellAt(sheet, n, idx.money)), <<TRUE, 0>>)[2],
        last_ymd |-> coerce_cell_to_ymd(CellAt(sheet, n, idx.last))]

\* Mutant: the rows of a customer add up.
ReloadMergeSum(current, row_value) == current + row_value

\* agg.x = max(agg.x, row value)
ReloadMerge(current, row_value) == Max2(current, row_value)

\* One iteration of the reload loop (lines 276-301): data row n merged into
\* prev, the aggregates and max_last so far.
ReloadRow(prev, sheet, idx, n) ==
    LET email == normalize_email(CellAt(sheet, n, idx.email))
        last_ymd == RowValues(sheet, idx, n).last_ymd
        agg == GetAgg(prev.aggregates, email)
        merged == [agg EXCEPT
                     !.total_orders = ReloadMerge(@, RowValues(sheet, idx, n).total),
                     !.discounted_orders = ReloadMerge(@, RowValues(sheet, idx, n).discounted),
                     !.money_units = ReloadMerge(@, RowValues(sheet, idx, n).raw_units),
                     !.last_purchase_ymd =
                         IF last_ymd # NoYmd /\ (@ = NoYmd \/ last_ymd > @)
                         THEN last_ymd ELSE @]
    IN IF email = NoEmail THEN prev
       ELSE [aggregates |-> SetAgg(prev.aggregates, email, merged),
             max_last |-> IF last_ymd # NoYmd
                             /\ (prev.max_last = NoYmd \/ last_ymd > prev.max_last)
                          THEN last_ymd ELSE prev.max_last]

\* The reload loop over the data rows 1..n: the aggregates and max_last.
RECURSIVE ReloadRows(_, _, _)
ReloadRows(sheet, idx, n) ==
    IF n = 0 THEN [aggregates |-> <<>>, max_last |-> NoYmd]
    ELSE ReloadRow(ReloadRows(sheet, idx, n - 1), sheet, idx, n)

\* An order's price set without a shopMoney.
NoMoney == -1

\* shopify._pick_money, the amount: the shopMoney of the first of
\* totalPriceSet, currentTotalPriceSet, subtotalPriceSet and
\* currentSubtotalPriceSet that has one; 0 when none has.
pick_money(order) ==
    LET p == order.prices
    IN IF p.totalPriceSet # NoMoney THEN p.totalPriceSet
       ELSE IF p.currentTotalPriceSet # NoMoney THEN p.currentTotalPriceSet
       ELSE IF p.subtotalPriceSet # NoMoney THEN p.subtotalPriceSet
       ELSE IF p.currentSubtotalPriceSet # NoMoney THEN p.currentSubtotalPriceSet
       ELSE 0

\* float(config.shopify.vat_factor) in hundredths (119 for 1.19).  The
\* factors are 1.0 and 1.19: dividing a whole amount by one of them, the
\* float quotient is the exact quotient when that is whole, and falls on
\* the exact quotient's side of every half when it is not.  Another factor
\* has no value here.
vat_factor(config) == CHOOSE v \in {100, 119} : v = config.vat_factor

\* net_units = (amount - fixed_deduction_per_order) / vat_factor, a float.
\* Amounts of money are whole units: the quotient has a value here when it
\* is whole, and none when the code gets a fraction.
NetUnits(amount, config) ==
    LET units == (amount - config.fixed_deduction_per_order) * 100
    IN CHOOSE q \in {units \div vat_factor(config)} : q * vat_factor(config) = units

\* The orders the shop returns for a query: created_at:>=start (absent when
\* start is NoYmd) created_at:<=end.
fetch_orders(shop, query) ==
    SelectSeq(shop, LAMBDA o : (query.start = NoYmd \/ o.day >= query.start)
                               /\ o.day <= query.end)

\* A float is a binary number of 53 significant bits.  The whole numbers
\* below 2^53 are all floats and the model writes them as themselves; the
\* whole number 2^53 + j is written TwoTo53 + j.  Sums of the numbers
\* written as themselves stay far below TwoTo53.
TwoTo53 == 16777216

\* a + b on floats: exact below 2^53; from 2^53 to 2^54 the floats are the
\* even numbers, and a sum half way between two of them goes to the one
\* whose last mantissa bit is 0 (a multiple of 4).
float_add(a, b) ==
    LET s == a + b
        j == s - TwoTo53
    IN IF s < TwoTo53 \/ j % 2 = 0 THEN s
       ELSE IF (j + 1) % 4 = 0 THEN s + 1 ELSE s - 1

\* Mutant: every merged order moves the last purchase to its own day.
LaterDayOverwrites(last_purchase_ymd, day) == day

\* Lines 358-359: the later of the aggregate's last purchase and the day.
LaterDay(last_purchase_ymd, day) ==
    IF last_purchase_ymd = NoYmd \/ day > last_purchase_ymd THEN day ELSE last_purchase_ymd

\* Lines 355-356: an order with a discount counts as discounted.
CountDiscounted(discounted_orders, discount_amount) ==
    IF discount_amount > 0 THEN discounted_orders + 1 ELSE discounted_orders

\* Mutant: the name and phone of the latest order win.
LatestWins(current, picked) == picked

\* "if not agg.name: agg.name = _pick_customer_name(order)" (0: empty)
FirstNonEmpty(current, picked) == IF current = 0 THEN picked ELSE current

\* One iteration of the loop over the fetched orders (lines 335-364).
MergeOrder(aggregates, order, config) ==
    LET email == normalize_email(order.email)
        agg == GetAgg(aggregates, email)
        merged == [agg EXCEPT
                     !.total_orders = @ + 1,
                     !.discounted_orders = CountDiscounted(@, order.discount),
                     !.money_units = float_add(@, NetUnits(pick_money(order), config)),
                     !.last_purchase_ymd = LaterDay(@, order.day),
                     !.name = FirstNonEmpty(@, order.name),
                     !.phone = FirstNonEmpty(@, order.phone)]
    IN IF email = NoEmail \/ order.day = NoYmd THEN aggregates
       ELSE SetAgg(aggregates, email, merged)

\* The loop over the fetched orders (lines 335-364), orders 1..n.
RECURSIVE MergeOrders(_, _, _, _)
MergeOrders(aggregates, orders, config, n) ==
    IF n = 0 THEN aggregates
    ELSE MergeOrder(MergeOrders(aggregates, orders, config, n - 1), orders[n], config)

LabelAlta == Cell("text", 901)
LabelMedia == Cell("text", 902)
LabelBaja == Cell("text", 903)

\* Mutant: a ratio of exactly 0.8 or 0.6 falls into the lower class.
sensitivity_label_above(discounted_orders, total_orders) ==
    IF total_orders <= 0 THEN Blank
    ELSE IF 10 * discounted_orders > 8 * total_orders THEN LabelAlta
    ELSE IF 10 * discounted_orders > 6 * total_orders THEN LabelMedia
    ELSE LabelBaja

\* sensitivity_label: the ratio discounted_orders / total_orders against 0.8
\* and 0.6.
sensitivity_label(discounted_orders, total_orders) ==
    IF total_orders <= 0 THEN Blank
    ELSE IF 10 * discounted_orders >= 8 * total_orders THEN LabelAlta
    ELSE IF 10 * discounted_orders >= 6 * total_orders THEN LabelMedia
    ELSE LabelBaja

\* shopify._round_half_away_from_zero of the quotient num / den (den > 0):
\* math.floor(value + 0.5) if value >= 0 else math.ceil(value - 0.5).
round_half_away_from_zero(num, den) ==
    IF num >= 0 THEN (2 * num + den) \div (2 * den)
    ELSE -((2 * (-num) + den) \div (2 * den))

\* The dict of lines 388-400 for one aggregate: column index -> cell.  A
\* later key of the literal overrides an earlier equal one.
UpdatesOf(agg, idx, end_ymd) ==
    LET cols == {idx.freq, idx.recency, idx.money, idx.sensitivity,
                 idx.last, idx.discounted, idx.total, idx.money_units}
    IN [c \in cols |->
          IF c = idx.money_units THEN NumCell(agg.money_units)
          ELSE IF c = idx.total THEN NumCell(agg.total_orders)
          ELSE IF c = idx.discounted THEN NumCell(agg.discounted_orders)
          ELSE IF c = idx.last THEN IsoCell(agg.last_purchase_ymd)
          ELSE IF c = idx.sensitivity
               THEN sensitivity_label(agg.discounted_orders, agg.total_orders)
          ELSE IF c = idx.money THEN NumCell(round_half_away_from_zero(agg.money_units, 1))
          ELSE IF c = idx.recency
               THEN NumCell(ToOrdinal(end_ymd) - ToOrdinal(agg.last_purchase_ymd))
          ELSE NumCell(agg.total_orders)]

\* updates_by_email (lines 380-400): aggregates without a last purchase are
\* left out.
UpdatesByEmail(aggregates, idx, end_ymd) ==
    [e \in {x \in DOMAIN aggregates : aggregates[x].last_purchase_ymd # NoYmd} |->
        UpdatesOf(aggregates[e], idx, end_ymd)]

\* update_cols: the keys of the first entry of updates_by_email, sorted.
UpdateCols(updates_by_email) ==
    IF DOMAIN updates_by_email = {} THEN {}
    ELSE DOMAIN updates_by_email[CHOOSE e \in DOMAIN updates_by_email : TRUE]

\* Mutant: one range from the first touched column to the last.
GroupRunsSpanning(update_cols, i) ==
    IF i = 0 THEN <<>> ELSE <<[first |-> update_cols[1], last |-> update_cols[i]]>>

\* The loop of lines 415-420 over the first i sorted columns: the runs of
\* consecutive column indices, each as [first, last].
RECURSIVE GroupRuns(_, _)
GroupRuns(update_cols, i) ==
    IF i = 0 THEN <<>>
    ELSE LET groups == GroupRuns(update_cols, i - 1)
         IN IF groups = <<>> \/ update_cols[i] # groups[Len(groups)].last + 1
            THEN Append(groups, [first |-> update_cols[i], last |-> update_cols[i]])
            ELSE [groups EXCEPT ![Len(groups)].last = update_cols[i]]

\* Mutant: a cell the row has no update for is written empty.
PlanCellOrEmpty(row_updates, values, r, c) ==
    IF c \in DOMAIN row_updates THEN row_updates[c] ELSE Blank

\* Lines 437-441: the update of the row for the column, else the cell read.
PlanCell(row_updates, values, r, c) ==
    IF c \in DOMAIN row_updates THEN row_updates[c] ELSE CellAt(values, r, c)

\* batch_updates (lines 422-443): per group the range first..last of the
\* data rows 1..data_rows and its matrix.
BatchUpdates(values, data_rows, row_emails, updates_by_email) ==
    LET update_cols == SortAscending(UpdateCols(updates_by_email))
        groups == GroupRuns(update_cols, Len(update_cols))
    IN [g \in 1..Len(groups) |->
          [first |-> groups[g].first, last |-> groups[g].last, rows |-> data_rows,
           matrix |->
             [r \in 1..data_rows |->
                LET email == row_emails[r]
                    row_updates == IF email \in DOMAIN updates_by_email
                                   THEN updates_by_email[email] ELSE <<>>
                IN [k \in 1..(groups[g].last - groups[g].first + 1) |->
                      PlanCell(row_updates, values, r, groups[g].first + k - 1)]]]]

\* The store after batch_update_values with the first n ranges of the plan.
RECURSIVE ApplyBatch(_, _, _)
ApplyBatch(sheet, batch_updates, n) ==
    IF n = 0 THEN sheet
    ELSE LET prev == ApplyBatch(sheet, batch_updates, n - 1)
             u == batch_updates[n]
             width == Max2(Len(prev.header), u.last)
         IN Sheet(prev.header,
                  [r \in 1..Max2(Len(prev.rows), u.rows) |->
                     [c \in 1..width |->
                        IF r <= u.rows /\ c >= u.first /\ c <= u.last
                        THEN u.matrix[r][c - u.first + 1]
                        ELSE CellAt(prev, r, c)]])

\* col_index = {name: i for i, name in enumerate(header)}: the last column
\* of that name, 0 when the header has none.
RECURSIVE ColIndex(_, _, _)
ColIndex(header, name, i) ==
    IF i = 0 THEN 0
    ELSE IF header[i] = name THEN i ELSE ColIndex(header, name, i - 1)

\* The rows of the sheet up to its last row that is not empty.
TableRows(sheet) ==
    LET width == Max2(Len(sheet.header),
                      MaxOfSet({Len(sheet.rows[r]) : r \in 1..Len(sheet.rows)}))
    IN SubSeq(sheet.rows, 1, LastNonEmptyRow(sheet, width, Len(sheet.rows)))

\* GoogleSheetsClient.append_rows: rows are dicts column name -> cell.  It
\* raises ValueError on a key the header lacks, and appends below the table.
append_rows(sheet, header, rows) ==
    IF rows = <<>> THEN [raised |-> FALSE, wrote |-> FALSE, sheet |-> sheet]
    ELSE IF \E r \in 1..Len(rows) : \E key \in DOMAIN rows[r] :
                ColIndex(header, key, Len(header)) = 0
    THEN [raised |-> TRUE, wrote |-> FALSE, sheet |-> sheet]
    ELSE [raised |-> FALSE, wrote |-> TRUE,
          sheet |->
            Sheet(sheet.header,
                  TableRows(sheet) \o
                  [r \in 1..Len(rows) |->
                     [c \in 1..Len(header) |->
                        IF \E key \in DOMAIN rows[r] : ColIndex(header, key, Len(header)) = c
                        THEN rows[r][CHOOSE key \in DOMAIN rows[r] :
                                        ColIndex(header, key, Len(header)) = c]
                        ELSE Blank]])]

\* sorted(emails): the e-mail strings of the model sort as their codes.
RECURSIVE SortEmails(_)
SortEmails(S) ==
    IF S = {} THEN <<>>
    ELSE LET m == CHOOSE x \in S : \A y \in S : x.v <= y.v
         IN <<m>> \o SortEmails(S \ {m})

\* The row dict of lines 457-470 for a customer the sheet does not have.
\* Later assignments to one key override earlier ones.
NewCustomerRow(header, idx, email, agg, updates) ==
    LET keys == (IF idx.name # 0 THEN {header[idx.name]} ELSE {})
                \cup (IF idx.phone # 0 THEN {header[idx.phone]} ELSE {})
                \cup {header[idx.email], header[idx.freq], header[idx.recency],
                      header[idx.money], header[idx.sensitivity], header[idx.last],
                      header[idx.discounted], header[idx.total], header[idx.money_units]}
    IN [key \in keys |->
          IF key = header[idx.money_units] THEN updates[idx.money_units]
          ELSE IF key = header[idx.total] THEN updates[idx.total]
          ELSE IF key = header[idx.discounted] THEN updates[idx.discounted]
          ELSE IF key = header[idx.last] THEN updates[idx.last]
          ELSE IF key = header[idx.sensitivity] THEN updates[idx.sensitivity]
          ELSE IF key = header[idx.money] THEN updates[idx.money]
          ELSE IF key = header[idx.recency] THEN updates[idx.recency]
          ELSE IF key = header[idx.freq] THEN updates[idx.freq]
          ELSE IF idx.phone # 0 /\ key = header[idx.phone] THEN PhoneCell(agg.phone)
          ELSE IF key = header[idx.email] THEN email
          ELSE TextCell(agg.name)]

\* merge of all fetched orders into the aggregates
merge_orders(aggregates, orders, config) ==
    MergeOrders(aggregates, orders, config, Len(orders))

\* Lines 402-481: the dry-run return, the batch update of the existing rows
\* and the append of the new customers.  `s` holds what the pass has
\* established so far, `p` the arguments of the call.
SyncWrite(h, s, aggregates, updates_by_email, batch_updates, new_rows, p) ==
    LET fetch_call == IF s.nothing_to_fetch THEN <<>> ELSE <<"fetch_orders">>
        computed == [raised |-> FALSE, calls |-> s.header_call \o fetch_call,
                     nothing_to_fetch |-> s.nothing_to_fetch, query |-> s.query,
                     values |-> h.sheet, data_rows |-> s.data_rows,
                     row_emails |-> s.row_emails, needs_backfill |-> s.needs_backfill,
                     aggregates |-> aggregates, updates_by_email |-> updates_by_email,
                     batch_updates |-> <<>>, sheet |-> h.sheet]
    IN IF p.dry_run THEN computed
       ELSE [computed EXCEPT
               !.calls = @ \o (IF batch_updates # <<>> THEN <<"batch_update_values">> ELSE <<>>)
                           \o (IF new_rows # <<>> THEN <<"append_rows">> ELSE <<>>),
               !.batch_updates = batch_updates,
               !.sheet = append_rows(ApplyBatch(h.sheet, batch_updates, Len(batch_updates)),
                                     h.header, new_rows).sheet]

\* The rows of lines 448-471, for the sorted e-mails the sheet lacks.
NewRows(header, idx, new_emails, aggregates, updates_by_email) ==
    [i \in 1..Len(new_emails) |->
        NewCustomerRow(header, idx, new_emails[i], aggregates[new_emails[i]],
                       updates_by_email[new_emails[i]])]

\* Lines 380-446: the edit map and its batch plan.
SyncPlan(h, idx, s, aggregates, updates_by_email, p) ==
    SyncWrite(h, s, aggregates, updates_by_email,
              IF s.data_rows > 0
              THEN BatchUpdates(h.sheet, s.data_rows, s.row_emails, updates_by_email)
              ELSE <<>>,
              NewRows(h.header, idx,
                      SortEmails(DOMAIN updates_by_email \ (SeqToSet(s.row_emails) \ {NoEmail})),
                      aggregates, updates_by_email),
              p)

\* What a pass that raised reports: the calls it made before.
Stopped(h, s, calls) ==
    [raised |-> TRUE, calls |-> calls, nothing_to_fetch |-> s.nothing_to_fetch,
     query |-> s.query, values |-> h.sheet, data_rows |-> s.data_rows,
     row_emails |-> s.row_emails, needs_backfill |-> s.needs_backfill,
     aggregates |-> <<>>, updates_by_email |-> <<>>, batch_updates |-> <<>>,
     sheet |-> h.sheet]

\* Lines 335-400: the merge of the fetched orders; parse_ymd of a last
\* purchase that is no calendar date raises.
SyncMerge(h, idx, s, aggregates, p) ==
    IF \E e \in DOMAIN aggregates : ParseYmdRaises(aggregates[e].last_purchase_ymd)
    THEN [Stopped(h, s, s.header_call \o <<"fetch_orders">>) EXCEPT
             !.calls = s.header_call \o (IF s.nothing_to_fetch THEN <<>> ELSE <<"fetch_orders">>),
             !.aggregates = aggregates]
    ELSE SyncPlan(h, idx, s, aggregates, UpdatesByEmail(aggregates, idx, p.end_ymd), p)

\* Lines 319-333: nothing to fetch when start_ymd > end_ymd, else the query
\* and fetch_orders, which may raise.
SyncFetch(h, idx, s, reload, p) ==
    IF ~s.nothing_to_fetch /\ p.fetch_fails
    THEN Stopped(h, s, s.header_call \o <<"fetch_orders">>)
    ELSE SyncMerge(h, idx, s,
                   merge_orders(IF s.needs_backfill THEN <<>> ELSE reload.aggregates,
                                IF s.nothing_to_fetch THEN <<>> ELSE fetch_orders(p.shop, s.query),
                                p.config),
                   p)

\* Mutant: only the absence of the internal columns asks for a backfill.
NeedsBackfillForColumns(internal_added, max_last) == internal_added

\* needs_backfill = internal_added or max_last is None
NeedsBackfill(internal_added, max_last) == internal_added \/ max_last = NoYmd

\* Mutant: the window starts on the day of the last purchase saved.
StartOn(max_last) == max_last

\* start_ymd = add_days(max_last_date, 1).isoformat()
StartAfter(max_last) == add_days(max_last, 1)

\* Lines 309-317: needs_backfill and start_ymd; parse_ymd(max_last) raises
\* when max_last is no calendar date.
SyncWindow(h, idx, data_rows, row_emails, reload, p) ==
    LET needs_backfill == NeedsBackfill(h.internal_missing, reload.max_last)
        start_raises == ~NeedsBackfill(h.internal_missing, reload.max_last)
                        /\ ParseYmdRaises(reload.max_last)
        start_ymd == IF NeedsBackfill(h.internal_missing, reload.max_last)
                        \/ reload.max_last = NoYmd
                        \/ ParseYmdRaises(reload.max_last)
                     THEN NoYmd ELSE StartAfter(reload.max_last)
        s == [header_call |-> IF h.wrote THEN <<"update_values">> ELSE <<>>,
              data_rows |-> data_rows, row_emails |-> row_emails,
              needs_backfill |-> needs_backfill,
              nothing_to_fetch |-> start_ymd # NoYmd /\ start_ymd > p.end_ymd,
              query |-> [start |-> start_ymd, end |-> p.end_ymd]]
    IN IF start_raises
       THEN Stopped(h, [s EXCEPT !.nothing_to_fetch = FALSE,
                                 !.query = [start |-> NoYmd, end |-> p.end_ymd]],
                    s.header_call)
       ELSE SyncFetch(h, idx, s, reload, p)

\* Lines 227-307: the columns, the rows read and the reload of the
\* aggregates (skipped when the internal columns were just added).
SyncRead(h, idx, data_rows, p) ==
    IF \E f \in {"email", "freq", "recency", "money", "sensitivity",
                  "last", "discounted", "total", "money_units"} : idx[f] = 0
    THEN [raised |-> TRUE, calls |-> IF h.wrote THEN <<"update_values">> ELSE <<>>,
          nothing_to_fetch |-> FALSE, query |-> [start |-> NoYmd, end |-> p.end_ymd],
          values |-> h.sheet, data_rows |-> 0, row_emails |-> <<>>,
          needs_backfill |-> FALSE, aggregates |-> <<>>, updates_by_email |-> <<>>,
          batch_updates |-> <<>>, sheet |-> h.sheet]
    ELSE SyncWindow(h, idx, data_rows,
                    [r \in 1..data_rows |-> normalize_email(CellAt(h.sheet, r, idx.email))],
                    IF h.internal_missing
                    THEN [aggregates |-> <<>>, max_last |-> NoYmd]
                    ELSE ReloadRows(h.sheet, idx, data_rows),
                    p)

SyncHeader(h, p) ==
    SyncRead(h, ColumnIndices(h.header), DataRows(h.sheet, Len(h.header)), p)

\* customers.sync_consolidado_customers on the customers sheet, with the
\* shop's orders (fetch_fails: fetch_orders raises).  The result tells
\* whether the call raised, the fetches and store writes it made in order
\* (calls), what it read and planned, and the sheet afterwards.
sync_consolidado_customers(sheet, shop, fetch_fails, config, end_ymd, dry_run) ==
    SyncHeader(ensure_consolidado_header(sheet),
               [shop |-> shop, fetch_fails |-> fetch_fails, config |-> config,
                end_ymd |-> end_ymd, dry_run |-> dry_run])

\* What sync_consolidado_customers reports of a pass that did nothing.
NoResult ==
    [raised |-> FALSE, calls |-> <<>>, nothing_to_fetch |-> FALSE,
     query |-> [start |-> NoYmd, end |-> NoYmd], values |-> Sheet(<<>>, <<>>),
     data_rows |-> 0, row_emails |-> <<>>, needs_backfill |-> FALSE,
     aggregates |-> <<>>, updates_by_email |-> <<>>, batch_updates |-> <<>>,
     sheet |-> Sheet(<<>>, <<>>)]

\* No pass yet.
NoRun ==
    [result |-> NoResult, before |-> Sheet(<<>>, <<>>), dry_run |-> FALSE, end_ymd |-> NoYmd]

CustIdle ==
    /\ custSheet = Sheet(<<>>, <<>>)
    /\ custShop = <<>>
    /\ custRun = NoRun

-----------------------------------------------------------------------------
(***************************************************************************)
(* The date-keyed feeds of run_pipeline (pipeline.py) and their row        *)
(* builders (shopify.py, meta_ads.py, google_ads.py, klaviyo.py)           *)
(*                                                                         *)
(* A vendor record is [day, n, ad]: the day it is dated, the number every  *)
(* metric field of it carries, and for ad-level insights the ad.           *)
(***************************************************************************)

\* The tasks of run_pipeline in the order it runs them.
FeedOrder == <<"shopify", "customers", "meta", "meta_ads", "google_ads", "klaviyo">>
DateFeeds == {"shopify", "meta", "meta_ads", "google_ads", "klaviyo"}

\* date_headers of the feed's get_max_ymd_in_column call
DateHeaders(feed) ==
    IF feed = "shopify" THEN {"Día", "Dia", "dia", "Fecha", "date"}
    ELSE {"Fecha", "Día", "Dia"}

\* The key the feed's rows carry their date under.
DateKey(feed) == IF feed = "shopify" THEN "Día" ELSE "Fecha"

\* The keys of the row dicts the feed's row builder returns.
RowKeys(feed) ==
    CASE feed = "shopify" ->
            <<"Día", "orders_new", "orders_returning", "revenue_new", "revenue_returning">>
      [] feed = "meta" ->
            <<"Fecha", "Inversión - CLP", "Impresiones", "Alcance", "Visitas">>
      [] feed = "meta_ads" ->
            <<"Ad", "Adset", "Campaña", "Fecha", "Inversión", "ATC", "IC", "Purchase",
              "Impresiones", "Clicks", "Visitas", "Tiempo promedio", "Hook Rate",
              "Hold Rate">>
      [] feed = "google_ads" -> <<"Fecha", "Impresiones", "Visitas", "Inversión - CLP">>
      [] OTHER -> <<"Fecha", "Suscriptores">>

META_ADS_FLOOR == 20251101      \* start = "2025-11-01" of an empty ads sheet

\* dates.daterange_inclusive
daterange_inclusive(start, end) ==
    IF end < start THEN <<>>
    ELSE [i \in 1..(ToOrdinal(end) - ToOrdinal(start) + 1) |-> add_days(start, i - 1)]

\* The sum of the field n over the records dated `day`.
RECURSIVE SumOn(_, _, _)
SumOn(records, day, i) ==
    IF i = 0 THEN 0
    ELSE SumOn(records, day, i - 1) + (IF records[i].day = day THEN records[i].n ELSE 0)

CountOn(records, day) == Cardinality({i \in 1..Len(records) : records[i].day = day})

\* shopify.aggregate_orders_to_rows: one row for every day of the window,
\* whatever the orders; no order of the model names a returning customer.
aggregate_orders_to_rows(orders, start_ymd, end_ymd, config) ==
    LET days == daterange_inclusive(start_ymd, end_ymd)
    IN [i \in 1..Len(days) |->
          [key \in SeqToSet(RowKeys("shopify")) |->
              CASE key = "Día" -> IsoCell(days[i])
                [] key = "orders_new" -> NumCell(CountOn(orders, days[i]))
                [] key = "revenue_new" ->
                      NumCell(round_half_away_from_zero(
                         (SumOn(orders, days[i], Len(orders))
                          - config.fixed_deduction_per_order * CountOn(orders, days[i])) * 100,
                         vat_factor(config)))
                [] OTHER -> NumCell(0)]]

\* meta_ads.insights_to_sheet_rows, google_ads.results_to_sheet_rows and
\* klaviyo.metric_aggregates_to_sheet_rows: one row for every date of the
\* records, sorted, the metrics summed.
rows_by_date(feed, items) ==
    LET dates == SortAscending({items[i].day : i \in 1..Len(items)})
    IN [i \in 1..Len(dates) |->
          [key \in SeqToSet(RowKeys(feed)) |->
              IF key = "Fecha" THEN IsoCell(dates[i])
              ELSE NumCell(SumOn(items, dates[i], Len(items)))]]

\* The sort key (Fecha, Campaña, Adset, Ad) of a record: the names of an
\* ad's campaign, adset and ad sort as the ads' numbers.
AdKeyBefore(a, b) == a.day < b.day \/ (a.day = b.day /\ a.ad < b.ad)

\* rows.sort(key=...), a stable sort: records with one key stay in the
\* order they came in.  The first n records, sorted.
RECURSIVE SortedByAdKey(_, _)
SortedByAdKey(items, n) ==
    IF n = 0 THEN <<>>
    ELSE LET sorted == SortedByAdKey(items, n - 1)
             k == Cardinality({i \in 1..Len(sorted) : ~AdKeyBefore(items[n], sorted[i])})
         IN SubSeq(sorted, 1, k) \o <<items[n]>> \o SubSeq(sorted, k + 1, Len(sorted))

\* meta_ads.ad_insights_to_sheet_rows: one row for every record with spend,
\* sorted by date and ad; the records of the model carry no actions.
ad_insights_to_sheet_rows(items) ==
    LET kept == SelectSeq(items, LAMBDA it : it.n # 0)
        order == SortedByAdKey(kept, Len(kept))
    IN [i \in 1..Len(order) |->
          [key \in SeqToSet(RowKeys("meta_ads")) |->
                CASE key = "Fecha" -> IsoCell(order[i].day)
                  [] key \in {"Ad", "Adset", "Campaña"} -> Cell("text", 500 + order[i].ad)
                  [] key \in {"Inversión", "Impresiones", "Clicks", "Visitas"} ->
                        NumCell(order[i].n)
                  [] OTHER -> NumCell(0)]]

\* The rows a feed builds from what its vendor returned.
FeedRows(feed, items, start, end, config) ==
    CASE feed = "shopify" -> aggregate_orders_to_rows(items, start, end, config)
      [] feed = "meta_ads" -> ad_insights_to_sheet_rows(items)
      [] OTHER -> rows_by_date(feed, items)

\* GoogleSheetsClient.get_max_ymd_in_column: raises ValueError without a
\* header row or a date header; max_date is the largest date string of the
\* column (NoYmd for None).
get_max_ymd_in_column(sheet, date_headers) ==
    IF sheet.header = <<>> \/ FirstHeaderIn(sheet.header, date_headers, 1) = 0
    THEN [raised |-> TRUE, header |-> sheet.header, max_date |-> NoYmd]
    ELSE [raised |-> FALSE, header |-> sheet.header,
          max_date |->
            MaxYmd({coerce_cell_to_ymd(
                       CellAt(sheet, r, FirstHeaderIn(sheet.header, date_headers, 1))) :
                    r \in 1..Len(sheet.rows)} \ {NoYmd})]

\* What the vendor of a feed returns for the window start..end: two records
\* for every day of it ("ok"), nothing ("silent"), or, from a vendor that
\* does not keep to the window, also a record of the day before it
\* ("stray").
VendorKinds == {"ok", "silent", "stray", "down"}
VendorN(day) == 119 * DayOf(day)
VendorItems(kind, start, end) ==
    LET days == IF kind = "silent" THEN <<>>
                ELSE IF kind = "stray"
                     THEN daterange_inclusive(add_days(start, -1), end)
                     ELSE daterange_inclusive(start, end)
    IN [i \in 1..(2 * Len(days)) |->
          [day |-> days[(i + 1) \div 2],
           n |-> IF i % 2 = 1 THEN VendorN(days[(i + 1) \div 2]) ELSE 0,
           ad |-> 2 - (i % 2)]]

\* What a pass of a feed did: whether it raised, the vendor fetches and the
\* store writes it made in order, whether it found nothing to do, the
\* window start and the watermark it computed (NoYmd when it got to none),
\* what the vendor returned, the rows it built, and the sheet afterwards.
PassResult(sheet) ==
    [raised |-> FALSE, calls |-> <<>>, nothing_to_do |-> FALSE, start |-> NoYmd,
     max_saved |-> NoYmd, items |-> <<>>, rows |-> <<>>, sheet |-> sheet]

\* start = add_days(max_saved_date, 1).isoformat()
WindowStart(max_saved) == add_days(max_saved, 1)

\* Mutant: a pass never finds it has nothing to do.
NothingToDoNever(feed, start, last_date) == FALSE

\* "if start > end" (klaviyo: "if start >= end_exclusive", the day after
\* last_date)
NothingToDo(feed, start, last_date) ==
    IF feed = "klaviyo" THEN start >= add_days(last_date, 1) ELSE start > last_date

\* rows = [r for r in rows if r.get("Fecha", "") > max_saved] (klaviyo)
RowsAfter(rows, max_saved) == SelectSeq(rows, LAMBDA row : row["Fecha"].v > max_saved)

\* The dry-run branch and the append of the rows (klaviyo appends "if rows").
FeedWrite(feed, base, header, rows, run) ==
    IF run.dry_run \/ rows = <<>> THEN [base EXCEPT !.rows = rows]
    ELSE IF append_rows(base.sheet, header, rows).raised
    THEN [base EXCEPT !.rows = rows, !.raised = TRUE]
    ELSE [base EXCEPT !.rows = rows, !.calls = @ \o <<"append_rows">>,
                      !.sheet = append_rows(base.sheet, header, rows).sheet]

\* The rows of what the vendor returned.  The shipped AppConfig has no
\* fixed_deduction_per_order: the shopify feed raises AttributeError after
\* its fetch.
FeedBuild(feed, base, header, items, run) ==
    IF feed = "shopify" /\ ~run.config.complete
    THEN [base EXCEPT !.raised = TRUE, !.calls = @ \o <<"fetch">>, !.items = items]
    ELSE FeedWrite(feed, [base EXCEPT !.calls = @ \o <<"fetch">>, !.items = items], header,
                   IF feed = "klaviyo"
                   THEN RowsAfter(FeedRows(feed, items, base.start, run.last_date, run.config),
                                  base.max_saved)
                   ELSE FeedRows(feed, items, base.start, run.last_date, run.config),
                   run)

\* The window test, _require_env on the feed's credential, and the fetch.
FeedFetch(feed, base, header, run, vendor) ==
    IF NothingToDo(feed, base.start, run.last_date)
    THEN [base EXCEPT !.nothing_to_do = TRUE]
    ELSE IF ~run.config.tokens THEN [base EXCEPT !.raised = TRUE]
    ELSE IF vendor = "down" THEN [base EXCEPT !.raised = TRUE, !.calls = @ \o <<"fetch">>]
    ELSE FeedBuild(feed, base, header, VendorItems(vendor, base.start, run.last_date), run)

\* Mutant: every feed starts at the floor when its sheet holds no date.
BootstrapsAny(feed) == TRUE

\* The feed whose pass goes on without a saved date ("if max_info.max_date
\* ... else start = ..."); the others call _require_max_date.
Bootstraps(feed) == feed = "meta_ads"

\* _require_max_date, parse_ymd of the watermark and the window start; the
\* ads sheet without a date starts at META_ADS_FLOOR.
FeedWatermark(feed, base, max_info, run, vendor) ==
    IF max_info.raised THEN [base EXCEPT !.raised = TRUE]
    ELSE IF max_info.max_date = NoYmd
    THEN IF Bootstraps(feed)
         THEN FeedFetch(feed, [base EXCEPT !.start = META_ADS_FLOOR], max_info.header,
                        run, vendor)
         ELSE [base EXCEPT !.raised = TRUE]
    ELSE IF ParseYmdRaises(max_info.max_date)
    THEN [base EXCEPT !.raised = TRUE, !.max_saved = max_info.max_date]
    ELSE FeedFetch(feed, [base EXCEPT !.max_saved = max_info.max_date,
                                      !.start = WindowStart(max_info.max_date)],
                   max_info.header, run, vendor)

\* klaviyo after its consolidate_sum_by_date (lines 223-230).
FeedConsolidated(feed, cons, run, vendor) ==
    IF cons.raised THEN [PassResult(cons.sheet) EXCEPT !.raised = TRUE]
    ELSE FeedWatermark(feed,
                       [PassResult(cons.sheet) EXCEPT
                           !.calls = IF cons.wrote THEN <<"batch_update_values">> ELSE <<>>],
                       get_max_ymd_in_column(cons.sheet, DateHeaders(feed)), run, vendor)

\* The try block of a date-keyed feed.  A sheet the spreadsheet does not
\* have makes the first store call raise; the shipped AppConfig has no
\* ads_sheet.
FeedPass(feed, sheet, run, vendor) ==
    IF feed \in run.missing \/ (feed = "meta_ads" /\ ~run.config.complete)
    THEN [PassResult(sheet) EXCEPT !.raised = TRUE]
    ELSE IF feed = "klaviyo" /\ ~run.dry_run
    THEN FeedConsolidated(feed, consolidate_sum_by_date(sheet, DateHeaders(feed), "Suscriptores"),
                          run, vendor)
    ELSE FeedWatermark(feed, PassResult(sheet),
                       get_max_ymd_in_column(sheet, DateHeaders(feed)), run, vendor)

\* The try block of the customers feed (lines 115-121): _require_env, then
\* sync_consolidado_customers, which reads customers_spreadsheet_id and
\* customers_sheet from the config (the shipped AppConfig has neither).
CustomersPass(sheet, run, shop, vendor) ==
    IF ~run.config.tokens \/ ~run.config.complete \/ "customers" \in run.missing
    THEN [PassResult(sheet) EXCEPT !.raised = TRUE]
    ELSE LET r == sync_consolidado_customers(sheet, shop, vendor = "down", run.config,
                                             run.last_date, run.dry_run)
         IN [raised |-> r.raised,
             calls |-> [i \in 1..Len(r.calls) |->
                           IF r.calls[i] = "fetch_orders" THEN "fetch" ELSE r.calls[i]],
             nothing_to_do |-> r.nothing_to_fetch,
             start |-> r.query.start, max_saved |-> NoYmd, items |-> <<>>,
             rows |-> <<>>, sheet |-> r.sheet]

\* enabled(task)
Enabled(task, only) == only.none \/ task \in only.tasks

\* sheet_to_check (lines 62-72): the feed whose sheet the pre-flight reads,
\* "" when it reads none.
SheetToCheck(only) ==
    CASE Enabled("shopify", only) -> "shopify"
      [] ~Enabled("shopify", only) /\ Enabled("meta", only) -> "meta"
      [] ~Enabled("shopify", only) /\ ~Enabled("meta", only) /\ Enabled("meta_ads", only)
            -> "meta_ads"
      [] ~Enabled("shopify", only) /\ ~Enabled("meta", only) /\ ~Enabled("meta_ads", only)
            /\ Enabled("google_ads", only) -> "google_ads"
      [] ~Enabled("shopify", only) /\ ~Enabled("meta", only) /\ ~Enabled("meta_ads", only)
            /\ ~Enabled("google_ads", only) /\ Enabled("klaviyo", only) -> "klaviyo"
      [] OTHER -> ""

\* sheets.get_header(sheet_to_check), outside every try block: it raises on
\* a sheet the spreadsheet does not have, and config.sheets.ads_sheet raises
\* on the shipped AppConfig.
PreflightRaises(run) ==
    \/ SheetToCheck(run.only) # "" /\ SheetToCheck(run.only) \in run.missing
    \/ SheetToCheck(run.only) = "meta_ads" /\ ~run.config.complete

\* The first enabled task at position i or later, "finish" after the last.
RECURSIVE TaskFrom(_, _)
TaskFrom(i, only) ==
    IF i > Len(FeedOrder) THEN "finish"
    ELSE IF Enabled(FeedOrder[i], only) THEN FeedOrder[i] ELSE TaskFrom(i + 1, only)

PositionOf(task) == CHOOSE i \in 1..Len(FeedOrder) : FeedOrder[i] = task

\* "raise RuntimeError(...) from errors[0]"
FirstCause(errors) == errors[1]

\* How run_pipeline ended: it returned, raised the aggregate error of line
\* 267 (count, cause), or an exception left it before any feed.
Running == [kind |-> "running", count |-> 0, cause |-> ""]
Returned == [kind |-> "returned", count |-> 0, cause |-> ""]
Propagated == [kind |-> "propagated", count |-> 0, cause |-> "preflight"]
Finished(errors) ==
    IF errors # <<>>
    THEN [kind |-> "aggregate", count |-> Len(errors), cause |-> FirstCause(errors)]
    ELSE Returned

FeedSet == SeqToSet(FeedOrder)

\* The config as load_config builds it (AppConfig: no customers_sheet,
\* ads_sheet, fixed_deduction_per_order, vat_factor), and a config that has
\* every field the code reads, with and without the vendors' credentials.
ShippedConfig ==
    [complete |-> FALSE, tokens |-> TRUE, fixed_deduction_per_order |-> 0, vat_factor |-> 119]
FullConfig == [ShippedConfig EXCEPT !.complete = TRUE]
NoTokenConfig == [FullConfig EXCEPT !.tokens = FALSE]

AllTasks == [none |-> TRUE, tasks |-> {}]       \* only=None
Only(tasks) == [none |-> FALSE, tasks |-> tasks]

EmptySheet == Sheet(<<>>, <<>>)

NoHistory == [appended |-> {}, strayed |-> FALSE]

PipeIdle ==
    /\ pStore = [f \in FeedSet |-> EmptySheet]
    /\ pRun = [only |-> Only({}), dry_run |-> FALSE, last_date |-> NoYmd,
               config |-> ShippedConfig, missing |-> {},
               vendor |-> [f \in FeedSet |-> "ok"], run_no |-> 0]
    /\ pPc = "done"
    /\ pErrors = <<>>
    /\ pLog = <<>>
    /\ pOutcome = Returned
    /\ pHist = NoHistory

\* No pass under way: nothing read, nothing merged.
LabelIdle ==
    sens = [discounted_orders |-> 0, total_orders |-> 0, label |-> Blank, done |-> FALSE]

HttpIdle ==
    http = [max_retries |-> 0, attempt |-> 0, responses |-> <<>>, slept |-> 0,
            pc |-> "done", outcome |-> "none"]

MergeIdle ==
    /\ mIn = [sheet |-> EmptySheet, internal_added |-> FALSE, orders |-> <<>>,
              config |-> [fixed_deduction_per_order |-> 0, vat_factor |-> 100]]
    /\ mRows = 0
    /\ mLeft = {}
    /\ mAggs = <<>>
    /\ mMaxLast = NoYmd
    /\ mPrev = <<>>
    /\ mStep = "none"

-----------------------------------------------------------------------------
(***************************************************************************)
(* Webhook idempotency store                                               *)
(***************************************************************************)

Tokens == {"tokA", "tokB"}
WebDates == {20250101, 20250102}
NoDate == 0
Metrics == {"add_to_cart", "begin_checkout"}
Deliveries == 1..NumDeliveries

\* What a delivery turns out to be once the handler has looked at it.
DeliveryKinds == {"bad_hmac", "bad_json", "no_token", "bad_ts", "ok"}
Endpoints == {"carts_created", "checkout_created"}

IdleDelivery ==
    [pc |-> "idle", endpoint |-> "carts_created", token |-> "", date |-> NoDate,
     recorded |-> "none", status |-> 0]

\* sqlite lets one connection write at a time: a second writer's statement
\* waits (busy handler) until the holder commits or closes, and for no
\* longer than the timeout of sqlite3.connect (5 s by default).
LockFree(h) == writeLock = 0

\* Mutant: the table takes a second row of a token.
CartIsNewAlways(token) == TRUE

\* INSERT INTO seen_carts: the primary key check against the committed table.
CartIsNew(token) == seen_carts[token] = NoDate

\* carts_created: "if try_record_cart(...): increment(...)".
ShouldCount(recorded) == recorded = "true"

\* Mutant: the records dated on the cutoff go as well.
ToDeleteThrough(cutoff) ==
    {t \in Tokens : seen_carts[t] # NoDate /\ seen_carts[t] <= cutoff}

\* DELETE FROM seen_carts WHERE date < ?
ToDelete(cutoff) ==
    {t \in Tokens : seen_carts[t] # NoDate /\ seen_carts[t] < cutoff}

\* INSERT ... ON CONFLICT(date, metric) DO UPDATE SET count = count + 1
Upsert(counts, date, metric) ==
    [counts EXCEPT ![<<date, metric>>] = @ + 1]

\* cleanup_old_carts has deleted a record.
evicted == \E t \in Tokens : evictions[t] > 0

InitWebhook ==
    /\ seen_carts = [t \in Tokens |-> NoDate]
    /\ daily_counts = [k \in WebDates \X Metrics |-> 0]
    /\ writeLock = 0
    /\ deliveries = [h \in Deliveries |-> IdleDelivery]
    /\ deleted = 0
    /\ evictions = [t \in Tokens |-> 0]
    /\ before_date = NoDate

\* carts_created lines 41-56 / checkout_created lines 67-81: everything the
\* handler does before it touches the database.
Receive(h) ==
    /\ deliveries[h].pc = "idle"
    /\ IF h = 1 THEN TRUE ELSE deliveries[h - 1].pc # "idle"   \* numbered as they arrive
    /\ \E ep \in Endpoints, kind \in DeliveryKinds, tok \in Tokens, d \in WebDates :
        /\ ~(ep = "checkout_created" /\ kind = "no_token")
        /\ deliveries' = [deliveries EXCEPT ![h] =
              CASE kind = "bad_hmac" -> [@ EXCEPT !.pc = "done", !.endpoint = ep, !.status = 401]
                [] kind = "bad_json" -> [@ EXCEPT !.pc = "done", !.endpoint = ep, !.status = 400]
                [] kind = "no_token" -> [@ EXCEPT !.pc = "done", !.endpoint = ep, !.status = 200]
                [] kind = "bad_ts"   -> [@ EXCEPT !.pc = "done", !.endpoint = ep, !.status = 500]
                [] OTHER ->
                    [@ EXCEPT !.pc = IF ep = "carts_created" THEN "insert" ELSE "increment",
                              !.endpoint = ep, !.token = tok, !.date = d]]
    /\ UNCHANGED <<seen_carts, daily_counts, writeLock, deleted, evictions, before_date, exceptWeb>>

\* The connection of cleanup_old_carts as a holder of the write lock.
CleanupConn == NumDeliveries + 1

\* try_record_cart, conn.execute(INSERT): the statement takes the write
\* lock; the row is pending in this connection's transaction, or the key
\* exists and IntegrityError is raised, the transaction still open.
InsertCart(h) ==
    /\ deliveries[h].pc = "insert"
    /\ LockFree(h)
    /\ writeLock' = h
    /\ deliveries' = [deliveries EXCEPT
          ![h].pc = IF CartIsNew(deliveries[h].token) THEN "commit" ELSE "close"]
    /\ UNCHANGED <<seen_carts, daily_counts, deleted, evictions, before_date, exceptWeb>>

\* try_record_cart, conn.commit() and return True.
CommitCart(h) ==
    /\ deliveries[h].pc = "commit"
    /\ seen_carts' = [seen_carts EXCEPT ![deliveries[h].token] = deliveries[h].date]
    /\ writeLock' = IF writeLock = h THEN 0 ELSE writeLock
    /\ deliveries' = [deliveries EXCEPT
          ![h].recorded = "true",
          ![h].pc = IF ShouldCount("true") THEN "increment" ELSE "done",
          ![h].status = IF ShouldCount("true") THEN 0 ELSE 200]
    /\ UNCHANGED <<daily_counts, deleted, evictions, before_date, exceptWeb>>

\* try_record_cart, "except sqlite3.IntegrityError: return False": the
\* conn.close() of the finally clause ends the transaction and frees the
\* write lock.
CloseCart(h) ==
    /\ deliveries[h].pc = "close"
    /\ writeLock' = IF writeLock = h THEN 0 ELSE writeLock
    /\ deliveries' = [deliveries EXCEPT
          ![h].recorded = "false",
          ![h].pc = IF ShouldCount("false") THEN "increment" ELSE "done",
          ![h].status = IF ShouldCount("false") THEN 0 ELSE 200]
    /\ UNCHANGED <<seen_carts, daily_counts, deleted, evictions, before_date, exceptWeb>>

\* try_record_cart, conn.execute(INSERT) while another connection has held
\* the write lock for longer than the timeout: sqlite3.OperationalError
\* (database is locked), which try_record_cart does not catch.  The handler
\* ends with the exception (500) and nothing is written.
InsertCartBusy(h) ==
    /\ deliveries[h].pc = "insert"
    /\ ~LockFree(h)
    /\ deliveries' = [deliveries EXCEPT
          ![h].recorded = "locked", ![h].pc = "done", ![h].status = 500]
    /\ UNCHANGED <<seen_carts, daily_counts, writeLock, deleted, evictions, before_date,
                   exceptWeb>>

\* increment(), the upsert while another connection has held the write lock
\* for longer than the timeout: sqlite3.OperationalError; the handler ends
\* with the exception (500) and no counter is written.
IncrementBusy(h) ==
    /\ deliveries[h].pc = "increment"
    /\ ~LockFree(h)
    /\ deliveries' = [deliveries EXCEPT ![h].pc = "done", ![h].status = 500]
    /\ UNCHANGED <<seen_carts, daily_counts, writeLock, deleted, evictions, before_date,
                   exceptWeb>>

\* increment(), conn.execute(upsert): the statement takes the write lock,
\* the counter is pending in this connection's transaction.
Increment(h) ==
    /\ deliveries[h].pc = "increment"
    /\ LockFree(h)
    /\ writeLock' = h
    /\ deliveries' = [deliveries EXCEPT ![h].pc = "count"]
    /\ UNCHANGED <<seen_carts, daily_counts, deleted, evictions, before_date, exceptWeb>>

\* increment(), conn.commit(): the counter is written and the lock freed;
\* the handler returns {"ok": True}.
CommitIncrement(h) ==
    /\ deliveries[h].pc = "count"
    /\ daily_counts' = Upsert(daily_counts, deliveries[h].date,
                              IF deliveries[h].endpoint = "carts_created"
                              THEN "add_to_cart" ELSE "begin_checkout")
    /\ writeLock' = IF writeLock = h THEN 0 ELSE writeLock
    /\ deliveries' = [deliveries EXCEPT ![h].pc = "done", ![h].status = 200]
    /\ UNCHANGED <<seen_carts, deleted, evictions, before_date, exceptWeb>>

\* _startup_cleanup: cleanup_old_carts(today - 7 days) when a worker starts,
\* conn.execute(DELETE): the statement takes the write lock, the deletion
\* is pending in its transaction.  (A cleanup that finds the write lock held
\* for longer than the timeout raises and changes nothing: a step that
\* leaves the state as it is.)
StartupCleanup ==
    /\ writeLock = 0
    /\ \E cutoff \in WebDates : before_date' = cutoff
    /\ writeLock' = CleanupConn
    /\ UNCHANGED <<seen_carts, daily_counts, deliveries, deleted, evictions, exceptWeb>>

\* cleanup_old_carts, conn.commit() and "return cursor.rowcount".
CommitCleanup ==
    /\ writeLock = CleanupConn
    /\ seen_carts' = [t \in Tokens |->
          IF t \in ToDelete(before_date) THEN NoDate ELSE seen_carts[t]]
    /\ deleted' = Cardinality(ToDelete(before_date))
    /\ evictions' = [t \in Tokens |->
          IF t \in ToDelete(before_date) THEN evictions[t] + 1 ELSE evictions[t]]
    /\ writeLock' = 0
    /\ UNCHANGED <<daily_counts, deliveries, before_date, exceptWeb>>

NextWebhook ==
    \/ \E h \in Deliveries : Receive(h)
    \/ \E h \in Deliveries : InsertCart(h)
    \/ \E h \in Deliveries : CommitCart(h)
    \/ \E h \in Deliveries : CloseCart(h)
    \/ \E h \in Deliveries : Increment(h)
    \/ \E h \in Deliveries : CommitIncrement(h)
    \/ \E h \in Deliveries : InsertCartBusy(h)
    \/ \E h \in Deliveries : IncrementBusy(h)
    \/ StartupCleanup
    \/ CommitCleanup

WebIdle ==
    /\ InitWebhook

-----------------------------------------------------------------------------
(***************************************************************************)
(* Specification SpecConsolidate: consolidate_sum_by_date called again and *)
(* again on one sheet, as the klaviyo feed calls it.                       *)
(***************************************************************************)

KlaviyoDateHeaders == {"Fecha", "Día", "Dia"}
KlaviyoSumHeader == "Suscriptores"

\* 45658 is the date serial of 2025-01-01.
ConsDateCells ==
    {IsoCell(20250102), Cell("dmyh", 20250101), Cell("num", 45658), Cell("text", 1), Blank}
\* "5,0", 3 and a text.
ConsSumCells == {Cell("decimal", 5), Cell("num", 3), Cell("text", 2)}

ConsGoodHeaders == {<<"Fecha", "Suscriptores", "Nota">>, <<"Nota", "Dia", "Suscriptores">>}
ConsBadHeaders == {<<>>, <<"Nota", "Suscriptores">>, <<"Fecha", "Nota">>}

\* A row of the sheet: its date cell, its sum cell, and in every other column
\* a note that names the row.
ConsRow(header, r, dc, sc) ==
    [k \in 1..Len(header) |->
        IF header[k] \in KlaviyoDateHeaders THEN dc
        ELSE IF header[k] = KlaviyoSumHeader THEN sc
        ELSE Cell("text", 100 + r)]

ConsIdle ==
    /\ table = Sheet(<<>>, <<>>)
    /\ prevTable = Sheet(<<>>, <<>>)
    /\ consLog = <<>>

InitConsolidate ==
    /\ \/ \E h \in ConsBadHeaders : table = Sheet(h, <<>>)
       \/ \E h \in ConsGoodHeaders, n \in 0..MaxRows :
             \E cells \in [1..n -> ConsDateCells \X ConsSumCells] :
                table = Sheet(h, [r \in 1..n |-> ConsRow(h, r, cells[r][1], cells[r][2])])
    /\ prevTable = table
    /\ consLog = <<>>

ConsolidateRun ==
    /\ Len(consLog) < MaxConsRuns
    /\ LET r == consolidate_sum_by_date(table, KlaviyoDateHeaders, KlaviyoSumHeader)
       IN /\ table' = r.sheet
          /\ prevTable' = table
          /\ consLog' = Append(consLog, [raised |-> r.raised, ret |-> r.ret, wrote |-> r.wrote])
    /\ UNCHANGED exceptCons

InitCons ==
    InitConsolidate /\ WebIdle /\ CustIdle /\ PipeIdle /\ MergeIdle /\ LabelIdle /\ HttpIdle
NextCons == ConsolidateRun
SpecConsolidate == InitCons /\ [][NextCons]_vars

(***************************************************************************)
(* Claims about consolidate_sum_by_date (checked under SpecConsolidate)    *)
(***************************************************************************)

DateColumnOf(sheet) == FirstHeaderIn(sheet.header, KlaviyoDateHeaders, 1)

\* The date each data row coerces to (NoYmd when it does not).
RowDate(sheet, r) == coerce_cell_to_ymd(CellAt(sheet, r, DateColumnOf(sheet)))

DistinctDates(sheet) == {RowDate(sheet, r) : r \in 1..Len(sheet.rows)} \ {NoYmd}

NoTwoRowsShareADate(sheet) ==
    \A r1, r2 \in 1..Len(sheet.rows) :
        (r1 # r2 /\ RowDate(sheet, r1) # NoYmd) => RowDate(sheet, r1) # RowDate(sheet, r2)

LastCons == consLog[Len(consLog)]

\* C8: after a rewrite the date column holds every distinct coerced date of
\* the table once, in ascending order from the first data row, and only
\* blank cells below; nothing else (no uncoerced cell) is left in it.
C8_RewriteSortedDistinct ==
    (consLog # <<>> /\ LastCons.wrote) =>
        LET c == DateColumnOf(table)
            n == Cardinality(DistinctDates(prevTable))
        IN /\ Len(table.rows) = Len(prevTable.rows)
           /\ n <= Len(table.rows)
           /\ \A r \in 1..Len(table.rows) :
                 IF r <= n
                 THEN /\ CellAt(table, r, c).k = "iso"
                      /\ CellAt(table, r, c).v \in DistinctDates(prevTable)
                      /\ r < n => CellAt(table, r, c).v < CellAt(table, r + 1, c).v
                 ELSE CellAt(table, r, c) = Blank

\* A rewrite that dropped a row whose date cell holds text.
C8_Witness ==
    /\ Len(consLog) = 1 /\ LastCons.wrote
    /\ \E r \in 1..Len(prevTable.rows) :
          CellAt(prevTable, r, DateColumnOf(prevTable)).k = "text"

\* C9: a second consolidate_sum_by_date right after the first returns 0,
\* writes nothing and leaves the table as the first call left it.
C9_SecondRunIsNoOp ==
    (Len(consLog) >= 2 /\ ~consLog[1].raised) =>
        /\ ~LastCons.raised
        /\ LastCons.ret = 0
        /\ ~LastCons.wrote
        /\ table = prevTable

\* The first call merged three rows into one, the second found nothing.
C9_Witness ==
    /\ Len(consLog) = 2
    /\ consLog[1].wrote /\ consLog[1].ret = 2

\* C10: on a table no two rows of which coerce to the same date the call
\* returns 0 and writes nothing.
C10_NoDuplicatesNoWrite ==
    (consLog # <<>> /\ ~LastCons.raised /\ NoTwoRowsShareADate(prevTable)) =>
        /\ LastCons.ret = 0
        /\ ~LastCons.wrote
        /\ table = prevTable

\* Two different dates and a row that does not coerce: nothing to merge.
C10_Witness ==
    /\ Len(consLog) = 1 /\ ~LastCons.raised
    /\ NoTwoRowsShareADate(prevTable)
    /\ Cardinality(DistinctDates(prevTable)) = 2
    /\ Len(prevTable.rows) = 3

\* The data rows whose date cell coerces.
DatedRows(sheet) == {r \in 1..Len(sheet.rows) : RowDate(sheet, r) # NoYmd}

\* C11 as stated: the value consolidate_sum_by_date returns is the original
\* data-row count minus the number of distinct dates in the output.
C11_ReturnsRowsMinusDates ==
    (consLog # <<>> /\ ~LastCons.raised) =>
        LastCons.ret = Len(TableRows(prevTable)) - Cardinality(DistinctDates(table))

\* C11, amended: the value consolidate_sum_by_date returns is the number of
\* duplicate rows merged, the number of data rows whose date cell coerces
\* minus the number of distinct dates in the output; it is the original
\* data-row count minus the distinct dates when every date cell coerces.
C11_ReturnsDatedRowsMinusDates ==
    (consLog # <<>> /\ ~LastCons.raised) =>
        /\ LastCons.ret =
              Cardinality(DatedRows(prevTable)) - Cardinality(DistinctDates(table))
        /\ Cardinality(DatedRows(prevTable)) = Len(TableRows(prevTable)) =>
              LastCons.ret = Len(TableRows(prevTable)) - Cardinality(DistinctDates(table))

\* A rewrite of a table with two rows of one date and a row without a date.
C11_Witness ==
    /\ Len(consLog) = 1 /\ LastCons.wrote
    /\ LastCons.ret = 1
    /\ Len(TableRows(prevTable)) = 3
    /\ Cardinality(DatedRows(prevTable)) = 2

SumColumnOf(sheet) == FirstHeaderIn(sheet.header, {KlaviyoSumHeader}, 1)

\* What a sum cell contributes to its group: its number when it coerces,
\* 0 when it does not or is missing.
Contribution(cell) ==
    IF coerce_cell_to_number(cell)[1] THEN coerce_cell_to_number(cell)[2] ELSE 0

\* The sum of the contributions of the sum cells of the rows in `rows`.
RECURSIVE GroupSum(_, _)
GroupSum(sheet, rows) ==
    IF rows = {} THEN 0
    ELSE LET r == CHOOSE x \in rows : TRUE
         IN Contribution(CellAt(sheet, r, SumColumnOf(sheet))) + GroupSum(sheet, rows \ {r})

\* C25: after a consolidation, for every group of rows whose date cell
\* coerced to the same date, the sum column of the consolidated row of that
\* date holds the sum of the coercible numeric cells of the group, cells
\* that do not coerce or are missing contributing 0.
C25_GroupSums ==
    (consLog # <<>> /\ LastCons.wrote) =>
        \A d \in DistinctDates(prevTable) :
           \E r \in 1..Len(table.rows) :
              /\ RowDate(table, r) = d
              /\ CellAt(table, r, SumColumnOf(table)) =
                    Cell("num", GroupSum(prevTable, {x \in DatedRows(prevTable) :
                                                        RowDate(prevTable, x) = d}))

\* Three rows of one date holding '5', 3 and a text were consolidated into
\* one row holding 8, two rows eliminated.
C25_Witness ==
    /\ Len(consLog) = 1 /\ LastCons.wrote /\ LastCons.ret = 2
    /\ Cardinality(DistinctDates(prevTable)) = 1
    /\ {CellAt(prevTable, r, SumColumnOf(prevTable)) : r \in 1..3} =
          {Cell("decimal", 5), Cell("num", 3), Cell("text", 2)}
    /\ CellAt(table, 1, SumColumnOf(table)) = Cell("num", 8)

\* The columns consolidate_sum_by_date is not given.
OtherColumns(sheet) ==
    (1..Len(sheet.header)) \ {DateColumnOf(sheet), SumColumnOf(sheet)}

\* C28: consolidate_sum_by_date writes only to the date column and the sum
\* column: the header and every cell of every other column are after the
\* call what and where they were before it, also when the date and sum
\* columns were compacted and sorted.
C28_OtherColumnsStay ==
    consLog # <<>> =>
        /\ table.header = prevTable.header
        /\ Len(table.rows) = Len(prevTable.rows)
        /\ \A r \in 1..Len(prevTable.rows) : \A k \in OtherColumns(prevTable) :
              CellAt(table, r, k) = CellAt(prevTable, r, k)

\* A consolidation moved the date of the third row up and blanked two
\* rows of the date column: the notes of all three rows are where they were.
C28_Witness ==
    /\ Len(consLog) = 1 /\ LastCons.wrote
    /\ Len(prevTable.rows) = 3
    /\ RowDate(prevTable, 3) < RowDate(prevTable, 1)
    /\ RowDate(table, 1) = RowDate(prevTable, 3)
    /\ CellAt(table, 3, DateColumnOf(table)) = Blank
    /\ \E k \in OtherColumns(table) :
          \A r \in 1..3 : CellAt(table, r, k) = Cell("text", 100 + r)

-----------------------------------------------------------------------------
(***************************************************************************)
(* Specification SpecCustomers: sync_consolidado_customers run any number  *)
(* of times on one customers sheet against the same shop.                  *)
(***************************************************************************)

CustEnd == MkYmd(2025, 1, 6)    \* end_ymd of the passes: yesterday

\* config.shopify.fixed_deduction_per_order and vat_factor (1.19)
CustConfig == [fixed_deduction_per_order |-> 0, vat_factor |-> 119]

\* The headers a customers sheet starts with: the one the program writes,
\* the columns of an older version, columns in another order under other
\* spellings, and none.
CustHeaderFull == DEFAULT_CONSOLIDADO_HEADER \o INTERNAL_COLUMNS
CustHeaderScattered ==
    <<" EMAIL", "Frecuency", "Buy_reason", "Recency", "Money", "Sensibilidad a descuento",
      "__last_purchase_ymd", "Nota", "__discounted_orders", "__total_orders", "__money_units">>
CustHeaders == {CustHeaderFull, DEFAULT_CONSOLIDADO_HEADER, CustHeaderScattered}

\* What a row holds besides its e-mail address: a customer the program
\* tracks (last purchase 2025-01-03), a row typed by hand, a customer whose
\* last purchase is the date serial of 2025-01-06, a row of the program
\* whose counts were edited by hand (3 discounted orders of 1).
CustProfiles ==
    [tracked |->
        [name |-> TextCell(403), freq |-> NumCell(2), recency |-> NumCell(5),
         money |-> NumCell(200), sens |-> LabelBaja, last |-> IsoCell(20250103),
         disc |-> NumCell(1), total |-> NumCell(2), units |-> NumCell(200)],
     manual |->
        [name |-> Blank, freq |-> Cell("numstr", 3), recency |-> Blank,
         money |-> NumCell(100), sens |-> Blank, last |-> Blank,
         disc |-> Blank, total |-> Blank, units |-> Blank],
     current |->
        [name |-> Blank, freq |-> NumCell(1), recency |-> NumCell(0),
         money |-> NumCell(100), sens |-> LabelAlta, last |-> NumCell(45663),
         disc |-> NumCell(1), total |-> NumCell(1), units |-> NumCell(100)],
     edited |->
        [name |-> Blank, freq |-> NumCell(1), recency |-> NumCell(4),
         money |-> NumCell(50), sens |-> LabelAlta, last |-> IsoCell(20250102),
         disc |-> NumCell(3), total |-> NumCell(1), units |-> NumCell(50)]]

CustRowKinds ==
    {<<Cell("text", 11), "tracked">>, <<Cell("text", 12), "current">>,
     <<Cell("text", 21), "manual">>, <<Blank, "tracked">>,
     <<Cell("text", 11), "edited">>}

\* Row r of kind `kind` under the header: the cell of every column, a note
\* naming the row in the columns the program does not manage.
CustRow(header, kind, r) ==
    LET p == CustProfiles[kind[2]]
    IN [k \in 1..Len(header) |->
          LET h == normalize_header(header[k])
          IN CASE h = "email" -> kind[1]
               [] h = "nombre" -> p.name
               [] h = "frecuency" -> p.freq
               [] h = "recency" -> p.recency
               [] h = "money" -> p.money
               [] StartsWith(h, "sensibilidad a descuento") -> p.sens
               [] h = "__last_purchase_ymd" -> p.last
               [] h = "__discounted_orders" -> p.disc
               [] h = "__total_orders" -> p.total
               [] h = "__money_units" -> p.units
               [] h \in {"buy_reason", "nota"} -> Cell("text", 100 + r)
               [] OTHER -> Blank]

\* The prices of an order: the shopMoney amounts of totalPriceSet,
\* currentTotalPriceSet, subtotalPriceSet and currentSubtotalPriceSet.
Prices(total, current_total, subtotal, current_subtotal) ==
    [totalPriceSet |-> total, currentTotalPriceSet |-> current_total,
     subtotalPriceSet |-> subtotal, currentSubtotalPriceSet |-> current_subtotal]

\* The paid orders of the shop: e-mail, day of createdAt in the report's
\* time zone, prices, discount, customer name and phone.  Ana's second
\* order was edited after it was placed: its current total is half the
\* total.  Eva's order has no totalPriceSet, Bob's only subtotals.
OrderAna ==
    [email |-> Cell("text", 11), day |-> 20250104,
     prices |-> Prices(119, 119, 100, 100), discount |-> 5,
     name |-> 403, phone |-> 0]
OrderEva ==
    [email |-> Cell("text", 31), day |-> 20250105,
     prices |-> Prices(NoMoney, 238, 200, 200), discount |-> 0,
     name |-> 401, phone |-> 402]
OrderAnaAgain ==
    [email |-> Cell("text", 12), day |-> 20250105,
     prices |-> Prices(238, 119, 200, 100), discount |-> 0,
     name |-> 404, phone |-> 402]
OrderBobLater ==
    [email |-> Cell("text", 21), day |-> 20250107,
     prices |-> Prices(NoMoney, NoMoney, 119, 100), discount |-> 0,
     name |-> 0, phone |-> 0]

CustShops ==
    {<<>>, <<OrderAna>>, <<OrderEva>>, <<OrderAna, OrderEva>>, <<OrderAna, OrderAnaAgain>>,
     <<OrderAnaAgain, OrderAna>>, <<OrderEva, OrderBobLater>>}

InitCustomers ==
    /\ \/ custSheet = Sheet(<<>>, <<>>)
       \/ \E h \in CustHeaders, n \in 0..MaxCustRows :
             \E kinds \in [1..n -> CustRowKinds] :
                custSheet = Sheet(h, [r \in 1..n |-> CustRow(h, kinds[r], r)])
    /\ custShop \in CustShops
    /\ custRun = NoRun

\* One pass: sync_consolidado_customers(config, end_ymd, dry_run), the shop
\* answering or failing.
CustomersSync ==
    /\ \E dry_run \in BOOLEAN, fetch_fails \in BOOLEAN :
          LET r == sync_consolidado_customers(custSheet, custShop, fetch_fails,
                                              CustConfig, CustEnd, dry_run)
          IN /\ custSheet' = r.sheet
             /\ custRun' = [result |-> r, before |-> custSheet,
                            dry_run |-> dry_run, end_ymd |-> CustEnd]
    /\ UNCHANGED custShop
    /\ UNCHANGED exceptCust

InitCust ==
    InitCustomers /\ WebIdle /\ ConsIdle /\ PipeIdle /\ MergeIdle /\ LabelIdle /\ HttpIdle
NextCust == CustomersSync
SpecCustomers == InitCust /\ [][NextCust]_vars

\* The last pass, and the cell its edit map requests for (row, column):
\* NoCell when it requests none.
LastPass == custRun.result
NoCell == Cell("none", 0)
Requested(pass, r, c) ==
    IF r \in 1..pass.data_rows
    THEN LET email == pass.row_emails[r]
         IN IF email \in DOMAIN pass.updates_by_email
               /\ c \in DOMAIN pass.updates_by_email[email]
            THEN pass.updates_by_email[email][c]
            ELSE NoCell
    ELSE NoCell

\* C7: applying the batch updates a pass of sync_consolidado_customers
\* emits to the table snapshot it read gives a table in which every cell
\* the edit map requests holds the requested value and every other cell
\* (rows without an update, columns outside the updated set, the header)
\* is the cell of the snapshot.
C7_PlanAppliesExactly ==
    LET applied == ApplyBatch(LastPass.values, LastPass.batch_updates,
                              Len(LastPass.batch_updates))
    IN LastPass.batch_updates # <<>> =>
         /\ applied.header = LastPass.values.header
         /\ \A r \in 1..(Max2(Len(applied.rows), Len(LastPass.values.rows)) + 1),
               c \in 1..(Len(LastPass.values.header) + 1) :
               CellAt(applied, r, c) =
                  IF Requested(LastPass, r, c) # NoCell
                  THEN Requested(LastPass, r, c)
                  ELSE CellAt(LastPass.values, r, c)

\* A pass whose plan has several ranges, over a row it changes that holds
\* something in a column outside the plan, and a row without an update that
\* holds something in a column of the plan.
C7_Witness ==
    /\ Len(LastPass.batch_updates) >= 2
    /\ \E a, b \in 1..LastPass.data_rows :
          LET cols == UpdateCols(LastPass.updates_by_email)
          IN /\ \E c \in cols : /\ Requested(LastPass, a, c) # NoCell
                                /\ Requested(LastPass, a, c) # CellAt(LastPass.values, a, c)
             /\ \E c \in 1..Len(LastPass.values.header) \ cols :
                   CellAt(LastPass.values, a, c) # Blank
             /\ \E c \in cols : /\ Requested(LastPass, b, c) = NoCell
                                /\ CellAt(LastPass.values, b, c) # Blank

\* The columns a pass writes the aggregates to.
AggregateColumns(header) ==
    {ColumnIndices(header)[f] :
        f \in {"freq", "recency", "money", "sensitivity", "last", "discounted",
               "total", "money_units"}}

\* A pass that wrote to the store and did not raise.
RealPass(run) == run # NoRun /\ ~run.dry_run /\ ~run.result.raised

\* C20: a pass of sync_consolidado_customers that follows another with the
\* same end date and the same orders in the shop leaves every cell of the
\* aggregate columns (frequency, recency, money, sensitivity, the internal
\* counts, amount and last purchase) as the first pass left it, appends no
\* row and leaves the number of rows as it was.
C20_Step ==
    (RealPass(custRun) /\ RealPass(custRun') /\ custRun'.before = custSheet) =>
       /\ custSheet'.header = custSheet.header
       /\ Len(TableRows(custSheet')) = Len(TableRows(custSheet))
       /\ "append_rows" \notin SeqToSet(custRun'.result.calls)
       /\ \A r \in 1..Len(custSheet.rows), c \in AggregateColumns(custSheet.header) :
             CellAt(custSheet', r, c) = CellAt(custSheet, r, c)
BeforeHeader(run) == ensure_consolidado_header(run.before)
InternalWereMissing(run) == BeforeHeader(run).internal_missing
StoredMaxLast(run) ==
    ReloadRows(BeforeHeader(run).sheet, ColumnIndices(BeforeHeader(run).header),
               DataRows(BeforeHeader(run).sheet, Len(BeforeHeader(run).header))).max_last
FullHistory(run) == fetch_orders(custShop, [start |-> NoYmd, end |-> run.end_ymd])

\* A pass that ran to its end (dry or not).
CompletedPass(run) == run # NoRun /\ ~run.result.raised

\* A backfill pass: no start date in the query, the aggregates built from
\* nothing but the full order history.
IsBackfill(run) ==
    /\ run.result.needs_backfill
    /\ run.result.query.start = NoYmd
    /\ run.result.aggregates = merge_orders(<<>>, FullHistory(run), CustConfig)

\* An incremental pass: the query starts the day after the largest stored
\* last-purchase date.
IsIncremental(run) ==
    /\ ~run.result.needs_backfill
    /\ StoredMaxLast(run) # NoYmd
    /\ run.result.query.start = add_days(StoredMaxLast(run), 1)

\* C21 as stated: the pass that finds the internal columns absent is a
\* backfill, and every pass after a pass (the columns now being present) is
\* incremental, starting the day after the largest stored last-purchase
\* date.
C21_Step ==
    (custRun' # custRun /\ CompletedPass(custRun')) =>
       /\ InternalWereMissing(custRun') => IsBackfill(custRun')
       /\ custRun # NoRun => IsIncremental(custRun')
C21_OneBackfillThenIncremental == [][C21_Step]_vars

\* C21, amended: a pass is a backfill exactly when it finds internal
\* columns absent or no last-purchase date stored; every other pass, and so
\* every pass after one that left a last-purchase date in the sheet, is
\* incremental, starting the day after the largest stored last-purchase
\* date.
C21_BackfillUntilDateStored ==
    CompletedPass(custRun) =>
       /\ (InternalWereMissing(custRun) \/ StoredMaxLast(custRun) = NoYmd)
             => IsBackfill(custRun)
       /\ ~(InternalWereMissing(custRun) \/ StoredMaxLast(custRun) = NoYmd)
             => IsIncremental(custRun)

\* The last pass was incremental on a sheet that an earlier pass had given
\* the internal columns and a customer from the order history.
C21_Witness ==
    /\ CompletedPass(custRun)
    /\ IsIncremental(custRun)
    /\ custRun.before.header = DEFAULT_CONSOLIDADO_HEADER \o INTERNAL_COLUMNS
    /\ Cell("text", 31) \in DOMAIN LastPass.aggregates
    /\ Cell("text", 31) \in SeqToSet(LastPass.row_emails)

\* The column indices the edit map of a pass touches, over all its rows.
Touched(pass) ==
    UNION {DOMAIN pass.updates_by_email[e] : e \in DOMAIN pass.updates_by_email}

ColumnSpan(u) == u.first..u.last

\* C22: the ranges a pass plans are the maximal runs of consecutive touched
\* column indices, in ascending order and one range per run: every range
\* covers the data rows 1..data_rows with a data_rows x run-length matrix,
\* two ranges neither overlap nor touch, the union of their column spans is
\* the touched column set, and a pass with data rows and a touched column
\* plans a range.
C22_RangesAreMaximalRuns ==
    LET plan == LastPass.batch_updates
    IN /\ \A g \in 1..Len(plan) :
             /\ plan[g].first <= plan[g].last
             /\ plan[g].rows = LastPass.data_rows
             /\ Len(plan[g].matrix) = LastPass.data_rows
             /\ \A r \in 1..Len(plan[g].matrix) :
                   Len(plan[g].matrix[r]) = plan[g].last - plan[g].first + 1
       /\ \A g \in 1..(Len(plan) - 1) : plan[g].last + 1 < plan[g + 1].first
       /\ plan # <<>> => UNION {ColumnSpan(plan[g]) : g \in 1..Len(plan)} = Touched(LastPass)
       /\ (CompletedPass(custRun) /\ ~custRun.dry_run /\ LastPass.data_rows > 0
              /\ Touched(LastPass) # {}) => plan # <<>>

\* A pass on the sheet with the scattered columns planned three ranges with
\* untouched columns between them.
C22_Witness ==
    /\ CompletedPass(custRun) /\ ~custRun.dry_run
    /\ LastPass.data_rows = 2
    /\ Len(LastPass.batch_updates) = 3
    /\ LastPass.batch_updates[1].first = LastPass.batch_updates[1].last
    /\ LastPass.batch_updates[2].last > LastPass.batch_updates[2].first
    /\ LastPass.batch_updates[2].last + 1 \notin Touched(LastPass)


-----------------------------------------------------------------------------
(***************************************************************************)
(* http.request_json                                                       *)
(***************************************************************************)

retry_statuses == {429, 500, 502, 503, 504}

RECURSIVE Pow2(_)
Pow2(n) == IF n = 0 THEN 1 ELSE 2 * Pow2(n - 1)

\* Mutant: a retryable status is retried on the last attempt too.
AttemptsRemainAlways(attempt, max_retries) == TRUE

\* "attempt < max_retries - 1"
AttemptsRemain(attempt, max_retries) == attempt < max_retries - 1

\* The body of the loop of request_json after requests.request (lines
\* 35-47) for the response resp, call being the state of the call: the
\* exception of the transport propagates; a retryable status with an
\* attempt left sleeps 2**attempt seconds and goes on; a status of 400 or
\* more raises HttpError; a body that parses is returned; one that does not
\* breaks out of the loop to the HttpError of line 48.
HandleResponse(call, resp) ==
    IF resp.raised
    THEN [call EXCEPT !.pc = "done", !.outcome = "RequestException"]
    ELSE IF resp.status_code \in retry_statuses
            /\ AttemptsRemain(call.attempt, call.max_retries)
    THEN [call EXCEPT !.slept = @ + Pow2(call.attempt), !.attempt = @ + 1]
    ELSE IF resp.status_code >= 400
    THEN [call EXCEPT !.pc = "done", !.outcome = "HttpError"]
    ELSE IF resp.is_json
    THEN [call EXCEPT !.pc = "done", !.outcome = "json"]
    ELSE [call EXCEPT !.pc = "done", !.outcome = "HttpError"]

-----------------------------------------------------------------------------
(***************************************************************************)
(* Specification SpecLabel: sensitivity_label applied to the counts of an  *)
(* aggregate.                                                              *)
(***************************************************************************)

InitLabelling ==
    \E total \in 0..MaxCount, discounted \in 0..MaxCount :
       sens = [discounted_orders |-> discounted, total_orders |-> total,
               label |-> Blank, done |-> FALSE]

\* label = sensitivity_label(discounted_orders=..., total_orders=...)
LabelStep ==
    /\ ~sens.done
    /\ sens' = [sens EXCEPT !.label = sensitivity_label(sens.discounted_orders,
                                                          sens.total_orders),
                            !.done = TRUE]
    /\ UNCHANGED exceptLabel

InitLabel ==
    InitLabelling /\ WebIdle /\ ConsIdle /\ CustIdle /\ PipeIdle /\ MergeIdle /\ HttpIdle
NextLabel == LabelStep
SpecLabel == InitLabel /\ [][NextLabel]_vars

\* C27: for counts with 0 <= discounted <= total the label is empty when
\* total is 0; otherwise it is 'Alta' if and only if discounted / total >=
\* 0.8 (5 * discounted >= 4 * total), 'Media' if and only if 0.6 <=
\* discounted / total < 0.8, and 'Baja' otherwise; of 10 orders, 8
\* discounted give 'Alta', 6 'Media' and 5 'Baja'.
C27_LabelByRatio ==
    LET d == sens.discounted_orders
        t == sens.total_orders
    IN (sens.done /\ d <= t) =>
          /\ t = 0 => sens.label = Blank
          /\ t > 0 =>
                /\ sens.label = LabelAlta <=> 5 * d >= 4 * t
                /\ sens.label = LabelMedia <=> (3 * t <= 5 * d /\ 5 * d < 4 * t)
                /\ sens.label = LabelBaja <=> 5 * d < 3 * t
          /\ (t = 10 /\ d = 8) => sens.label = LabelAlta
          /\ (t = 10 /\ d = 6) => sens.label = LabelMedia
          /\ (t = 10 /\ d = 5) => sens.label = LabelBaja

\* Six discounted orders of ten: 'Media', at its lower threshold.
C27_Witness ==
    /\ sens.done
    /\ sens.total_orders = 10 /\ sens.discounted_orders = 6
    /\ sens.label = LabelMedia

-----------------------------------------------------------------------------
(***************************************************************************)
(* Specification SpecHttp: one call of http.request_json, one action per   *)
(* turn of its loop.  What the server answers to a request, or that the    *)
(* transport raises instead (connection error, timeout), is chosen freely. *)
(* A request returns or raises within timeout_s and a sleep ends, so the   *)
(* loop is weakly fair.                                                    *)
(***************************************************************************)

\* What requests.request gives: a response with a status code and a body
\* that is JSON or not, or an exception of the transport.
Responses ==
    {[raised |-> FALSE, status_code |-> s, is_json |-> j] :
        s \in {200, 404} \cup retry_statuses, j \in BOOLEAN}
    \cup {[raised |-> TRUE, status_code |-> 0, is_json |-> FALSE]}

InitRequest ==
    \E n \in 0..MaxRetries :
       http = [max_retries |-> n, attempt |-> 0, responses |-> <<>>, slept |-> 0,
               pc |-> "loop", outcome |-> "none"]

\* One turn of "for attempt in range(max_retries)" (lines 26-47).
Attempt ==
    /\ http.pc = "loop"
    /\ http.attempt < http.max_retries
    /\ \E resp \in Responses :
          http' = HandleResponse([http EXCEPT !.responses = Append(@, resp)], resp)
    /\ UNCHANGED exceptHttp

\* The loop ends without a turn left: the raise of line 48.
LoopEnds ==
    /\ http.pc = "loop"
    /\ http.attempt >= http.max_retries
    /\ http' = [http EXCEPT !.pc = "done", !.outcome = "HttpError"]
    /\ UNCHANGED exceptHttp

InitHttp ==
    InitRequest /\ WebIdle /\ ConsIdle /\ CustIdle /\ PipeIdle /\ MergeIdle /\ LabelIdle
NextHttp ==
    \/ Attempt
    \/ LoopEnds
SpecHttp == InitHttp /\ [][NextHttp]_vars /\ WF_vars(NextHttp)

\* The responses after which request_json issued another request.
Retried == {i \in 1..Len(http.responses) : i < Len(http.responses) \/ http.pc = "loop"}

\* The part of C30 on the requests: at most max_retries of them, another
\* one only after a response with status 429, 500, 502, 503 or 504 and with
\* an attempt left, none after any other outcome.
RetriesAsClaimed ==
    /\ Len(http.responses) <= http.max_retries
    /\ \A i \in Retried :
          /\ ~http.responses[i].raised
          /\ http.responses[i].status_code \in {429, 500, 502, 503, 504}
          /\ i < http.max_retries

\* C30 as stated: request_json issues at most max_retries requests, retries
\* only on a status of 429, 500, 502, 503 or 504 with an attempt left, and
\* every call terminates with a parsed JSON response or an HttpError.
C30_EndsWithJsonOrHttpError ==
    /\ [](RetriesAsClaimed)
    /\ [](http.pc = "done" => http.outcome \in {"json", "HttpError"})
    /\ <>(http.pc = "done")

\* C30, amended: request_json issues at most max_retries requests, retries
\* only on a status of 429, 500, 502, 503 or 504 with an attempt left, and
\* every call terminates: with a parsed JSON response or an HttpError when
\* its last request got a response, and with the exception of the
\* transport, which is not retried, when its last request raised one.
C30_EndsWithJsonOrError ==
    /\ [](RetriesAsClaimed)
    /\ [](http.pc = "done" =>
            IF http.responses # <<>> /\ http.responses[Len(http.responses)].raised
            THEN http.outcome = "RequestException"
            ELSE http.outcome \in {"json", "HttpError"})
    /\ <>(http.pc = "done")

\* A call with max_retries 3 got 503 and 429, slept 1 s and 2 s, and ended
\* with an HttpError on a third 5xx, which it did not retry.
C30_Witness ==
    /\ http.pc = "done" /\ http.outcome = "HttpError"
    /\ http.max_retries = 3 /\ Len(http.responses) = 3
    /\ http.responses[1].status_code = 503
    /\ http.responses[2].status_code = 429
    /\ http.responses[3].status_code = 500
    /\ http.slept = 3

-----------------------------------------------------------------------------
(***************************************************************************)
(* Specification SpecMerge: the aggregates of one pass of                  *)
(* sync_consolidado_customers, step by step: the loop over the data rows   *)
(* of the sheet in their order (the reload, or the reading of the e-mails  *)
(* when the internal columns were just added), the reset of the aggregates *)
(* of a pass that backfills, then the loop over the fetched orders, taken  *)
(* in every order.                                                         *)
(***************************************************************************)

\* A free order (paid in full by a discount), an order without e-mail
\* address, an order without createdAt, an order of 2^53 units, orders of
\* one unit.
OrderFree ==
    [email |-> Cell("text", 11), day |-> 20250102, prices |-> Prices(0, 0, 0, 0), discount |-> 119,
     name |-> 403, phone |-> 0]
OrderNoEmail == [OrderEva EXCEPT !.email = Blank]
OrderNoDate == [OrderAna EXCEPT !.day = NoYmd]
OrderHuge ==
    [email |-> Cell("text", 11), day |-> 20250103,
     prices |-> Prices(TwoTo53, TwoTo53, TwoTo53, TwoTo53), discount |-> 0,
     name |-> 403, phone |-> 0]
OrderUnit ==
    [email |-> Cell("text", 11), day |-> 20250105,
     prices |-> Prices(NoMoney, NoMoney, NoMoney, 1), discount |-> 1,
     name |-> 0, phone |-> 402]
OrderUnitLater == [OrderUnit EXCEPT !.day = 20250106, !.discount = 0, !.email = Cell("text", 12)]

\* The configs (fixed deduction, VAT factor) and with each the orders the
\* shop may return: with a VAT factor of 1.19 gross amounts that divide.
MergeCases ==
    {[config |-> [fixed_deduction_per_order |-> 0, vat_factor |-> 119],
      pool |-> {OrderAna, OrderAnaAgain, OrderEva}],
     [config |-> [fixed_deduction_per_order |-> 0, vat_factor |-> 119],
      pool |-> {OrderAna, OrderNoEmail, OrderNoDate}],
     [config |-> [fixed_deduction_per_order |-> 119, vat_factor |-> 119],
      pool |-> {OrderAna, OrderAnaAgain, OrderFree}],
     [config |-> [fixed_deduction_per_order |-> 0, vat_factor |-> 100],
      pool |-> {OrderHuge, OrderUnit, OrderUnitLater}]}

MergeIndices == ColumnIndices(mIn.sheet.header)
MergeDataRows == DataRows(mIn.sheet, Len(mIn.sheet.header))

\* The pass after _ensure_consolidado_header (line 225) and get_values
\* (lines 259-266), on a sheet with the columns the program writes or with
\* those of an older version, which lacks the internal columns: the header
\* is completed and internal_added tells whether they were missing.
InitMerging ==
    /\ \E c \in MergeCases, n \in 0..MaxOrders,
          h \in {CustHeaderFull, DEFAULT_CONSOLIDADO_HEADER}, k \in 0..MaxCustRows :
          \E orders \in [1..n -> c.pool], kinds \in [1..k -> CustRowKinds] :
             LET ensured == ensure_consolidado_header(
                               Sheet(h, [r \in 1..k |-> CustRow(h, kinds[r], r)]))
             IN /\ Cardinality({i \in 1..n : pick_money(orders[i]) >= TwoTo53}) <= 1
                /\ mIn = [sheet |-> ensured.sheet,
                          internal_added |-> ensured.internal_missing,
                          orders |-> orders, config |-> c.config]
                /\ mLeft = 1..n
    /\ mRows = 0
    /\ mAggs = <<>>
    /\ mMaxLast = NoYmd
    /\ mPrev = <<>>
    /\ mStep = "none"

\* The loops over the data rows are not over, or just over.
ReadingRows == mStep \in {"none", "reload", "emails"}

\* The next iteration of the reload loop (customers.py 276-301), taken when
\* the internal columns were there.
ReloadStep ==
    /\ ReadingRows
    /\ ~mIn.internal_added
    /\ mRows < MergeDataRows
    /\ LET reload == ReloadRow([aggregates |-> mAggs, max_last |-> mMaxLast],
                               mIn.sheet, MergeIndices, mRows + 1)
       IN /\ mAggs' = reload.aggregates
          /\ mMaxLast' = reload.max_last
    /\ mPrev' = mAggs
    /\ mRows' = mRows + 1
    /\ mStep' = "reload"
    /\ UNCHANGED <<mIn, mLeft>>
    /\ UNCHANGED exceptMerge

\* The next iteration of the loop taken when the internal columns were just
\* added (customers.py 303-307): the row's e-mail is read, nothing reloaded.
EmailsStep ==
    /\ ReadingRows
    /\ mIn.internal_added
    /\ mRows < MergeDataRows
    /\ mPrev' = mAggs
    /\ mRows' = mRows + 1
    /\ mStep' = "emails"
    /\ UNCHANGED <<mIn, mLeft, mAggs, mMaxLast>>
    /\ UNCHANGED exceptMerge

\* Lines 309-311: "if needs_backfill: aggregates = {}", the reloaded
\* aggregates dropped when the internal columns were just added or no row
\* holds a last purchase.
BackfillStep ==
    /\ ReadingRows
    /\ mRows = MergeDataRows
    /\ mAggs' = IF NeedsBackfill(mIn.internal_added, mMaxLast) THEN <<>> ELSE mAggs
    /\ mPrev' = mAggs
    /\ mStep' = "backfill"
    /\ UNCHANGED <<mIn, mRows, mLeft, mMaxLast>>
    /\ UNCHANGED exceptMerge

\* One iteration of the loop over the fetched orders (customers.py 335-364),
\* the orders coming in any order.
OrderStep ==
    /\ mStep \in {"backfill", "order"}
    /\ \E i \in mLeft :
          /\ mAggs' = MergeOrder(mAggs, mIn.orders[i], mIn.config)
          /\ mLeft' = mLeft \ {i}
    /\ mPrev' = mAggs
    /\ mStep' = "order"
    /\ UNCHANGED <<mIn, mRows, mMaxLast>>
    /\ UNCHANGED exceptMerge

InitMerge ==
    InitMerging /\ WebIdle /\ ConsIdle /\ CustIdle /\ PipeIdle /\ LabelIdle /\ HttpIdle
NextMerge ==
    \/ ReloadStep
    \/ EmailsStep
    \/ BackfillStep
    \/ OrderStep
SpecMerge == InitMerge /\ [][NextMerge]_vars

(***************************************************************************)
(* Claims about the merges (checked under SpecMerge)                       *)
(***************************************************************************)

\* Every row read and every order merged.
Merged == mStep \in {"backfill", "order"} /\ mLeft = {}

\* What the reload loop leaves, the aggregates the pass keeps of it (none
\* when it backfills), and those the loop over the orders makes of them
\* taking the orders as the shop returned them.
ReloadedRows ==
    IF mIn.internal_added THEN [aggregates |-> <<>>, max_last |-> NoYmd]
    ELSE ReloadRows(mIn.sheet, MergeIndices, MergeDataRows)
Reloaded ==
    IF NeedsBackfill(mIn.internal_added, ReloadedRows.max_last) THEN <<>>
    ELSE ReloadedRows.aggregates
MergedInOrder == merge_orders(Reloaded, mIn.orders, mIn.config)

SameCounts(a, b) ==
    /\ DOMAIN a = DOMAIN b
    /\ \A e \in DOMAIN a :
          /\ a[e].total_orders = b[e].total_orders
          /\ a[e].discounted_orders = b[e].discounted_orders
          /\ a[e].last_purchase_ymd = b[e].last_purchase_ymd

SameMoney(a, b) ==
    /\ DOMAIN a = DOMAIN b
    /\ \A e \in DOMAIN a : a[e].money_units = b[e].money_units

\* No sum of the net amounts reaches 2^53: every float sum is exact.
ExactSums == \A i \in 1..Len(mIn.orders) : pick_money(mIn.orders[i]) < TwoTo53

\* C12 as stated: folding the fetched orders in any order gives every
\* identity the same total_orders, discounted_orders, money_units and
\* last_purchase_ymd.
C12_AnyOrderSameAggregates ==
    Merged => SameCounts(mAggs, MergedInOrder) /\ SameMoney(mAggs, MergedInOrder)

\* C12, amended: folding the fetched orders in any order gives every
\* identity the same total_orders, discounted_orders and last_purchase_ymd,
\* and the same money_units when the float sums of the net amounts are
\* exact.
C12_AnyOrderSameCounts ==
    Merged =>
       /\ SameCounts(mAggs, MergedInOrder)
       /\ ExactSums => SameMoney(mAggs, MergedInOrder)

\* Three orders of one customer the sheet already holds, the second later
\* than the first, merged in another order than the shop returned them.
C12_Witness ==
    /\ Merged /\ ExactSums
    /\ Len(mIn.orders) = 3
    /\ mIn.orders[1].day < mIn.orders[2].day
    /\ \A i \in 1..3 : normalize_email(mIn.orders[i].email) = Cell("text", 11)
    /\ Cell("text", 11) \in DOMAIN Reloaded
    /\ mAggs[Cell("text", 11)].total_orders = Reloaded[Cell("text", 11)].total_orders + 3
    /\ mAggs[Cell("text", 11)].money_units > Reloaded[Cell("text", 11)].money_units
    /\ mPrev # MergeOrders(Reloaded, mIn.orders, mIn.config, 2)

\* C13 as stated: every aggregate a pass holds, after any number of reload
\* merges of store rows and merges of fetched orders, has
\* discounted_orders <= total_orders.
C13_DiscountedAtMostTotal ==
    \A e \in DOMAIN mAggs : mAggs[e].discounted_orders <= mAggs[e].total_orders

\* C14 as stated: no merge of a reload row or of a fetched order lowers the
\* money_units of an identity, whatever the gross amount and the configured
\* fixed deduction.
C14_MoneyNeverLowered ==
    mStep \in {"reload", "order"} =>
       \A e \in DOMAIN mPrev : mAggs[e].money_units >= mPrev[e].money_units

\* The order a step of the loop over the orders has just taken is usable:
\* it has an e-mail and a creation date.
Usable(order) == normalize_email(order.email) # NoEmail /\ order.day # NoYmd

\* What C23 says of the step that merges the usable order into the
\* aggregate before, giving the aggregate after.
FreshRecordRule(before, after, order, config) ==
    /\ after.total_orders = before.total_orders + 1
    /\ after.discounted_orders =
          before.discounted_orders + (IF order.discount > 0 THEN 1 ELSE 0)
    /\ after.money_units = float_add(before.money_units, NetUnits(pick_money(order), config))
    /\ before.money_units + NetUnits(pick_money(order), config) < TwoTo53
          => after.money_units = before.money_units + NetUnits(pick_money(order), config)
    /\ after.last_purchase_ymd = Max2(before.last_purchase_ymd, order.day)
    /\ after.name = (IF before.name = 0 THEN order.name ELSE before.name)
    /\ after.phone = (IF before.phone = 0 THEN order.phone ELSE before.phone)

C23_Step ==
    \A i \in mLeft \ mLeft' :
       LET order == mIn.orders[i]
           email == normalize_email(order.email)
       IN Usable(order) =>
             /\ DOMAIN mAggs' = DOMAIN mAggs \cup {email}
             /\ FreshRecordRule(GetAgg(mAggs, email), mAggs'[email], order, mIn.config)
             /\ \A e \in DOMAIN mAggs \ {email} : mAggs'[e] = mAggs[e]

\* C23: the merge of a fetched order that has an e-mail and a creation date
\* adds exactly 1 to its identity's total_orders, 1 to discounted_orders if
\* and only if its discount amount is above 0, adds (as floats) its net
\* amount to money_units, makes last_purchase_ymd the later of the current
\* one and the order's day, sets name and phone only where they are empty,
\* and leaves every other identity as it was.
C23_FreshRecordMerge == [][C23_Step]_vars

\* An order without a discount, with a phone, has just been merged into an
\* identity that had a discounted order, an earlier last purchase, a name
\* and no phone: the name stayed and the phone was set.
C23_Witness ==
    /\ mStep = "order"
    /\ \E e \in DOMAIN mPrev :
          /\ mPrev[e].total_orders >= 1
          /\ mPrev[e].name # 0
          /\ mPrev[e].phone = 0
          /\ mAggs[e].total_orders = mPrev[e].total_orders + 1
          /\ mPrev[e].discounted_orders >= 1
          /\ mAggs[e].discounted_orders = mPrev[e].discounted_orders
          /\ mAggs[e].money_units > mPrev[e].money_units
          /\ mAggs[e].last_purchase_ymd > mPrev[e].last_purchase_ymd
          /\ mAggs[e].name = mPrev[e].name
          /\ mAggs[e].phone # 0

\* The reload loop has just merged row mRows; the pass has got past lines
\* 309-311 and kept the reloaded aggregates.
Reloading == mStep = "reload"
ReloadKept == mStep = "backfill" /\ ~NeedsBackfill(mIn.internal_added, mMaxLast)

\* The rows read so far whose normalized e-mail is e, and what they hold.
RowsOf(e) ==
    {n \in 1..mRows : normalize_email(CellAt(mIn.sheet, n, MergeIndices.email)) = e}
ValueOfRow(n) == RowValues(mIn.sheet, MergeIndices, n)

\* C24: in the reload pass each of total_orders, discounted_orders,
\* money_units and last_purchase_ymd of the row's identity becomes the
\* maximum of its current value and the row's value, never their sum, so
\* that the rows read so far with one normalized e-mail give the identity
\* the maximum of each field over those rows, during the reload loop and
\* when the pass goes on with what it reloaded.
C24_ReloadTakesMaximum ==
    /\ Reloading =>
          LET e == normalize_email(CellAt(mIn.sheet, mRows, MergeIndices.email))
          IN e # NoEmail =>
                /\ mAggs[e].total_orders =
                      Max2(GetAgg(mPrev, e).total_orders, ValueOfRow(mRows).total)
                /\ mAggs[e].discounted_orders =
                      Max2(GetAgg(mPrev, e).discounted_orders, ValueOfRow(mRows).discounted)
                /\ mAggs[e].money_units =
                      Max2(GetAgg(mPrev, e).money_units, ValueOfRow(mRows).raw_units)
                /\ mAggs[e].last_purchase_ymd =
                      Max2(GetAgg(mPrev, e).last_purchase_ymd, ValueOfRow(mRows).last_ymd)
    /\ (Reloading \/ ReloadKept) =>
          \A e \in DOMAIN mAggs :
             /\ RowsOf(e) # {}
             /\ mAggs[e].total_orders = MaxOfSet({ValueOfRow(n).total : n \in RowsOf(e)})
             /\ mAggs[e].discounted_orders =
                   MaxOfSet({ValueOfRow(n).discounted : n \in RowsOf(e)})
             /\ mAggs[e].money_units = MaxOfSet({ValueOfRow(n).raw_units : n \in RowsOf(e)})
             /\ mAggs[e].last_purchase_ymd =
                   MaxYmd({ValueOfRow(n).last_ymd : n \in RowsOf(e)})

\* Two rows with one normalized e-mail have been read and the pass goes on
\* with what it reloaded: the identity has the total of the first, which is
\* the larger, and the last purchase of the second, which is the later.
C24_Witness ==
    /\ ReloadKept
    /\ mRows = 2
    /\ \E e \in DOMAIN mAggs :
          /\ RowsOf(e) = {1, 2}
          /\ ValueOfRow(1).total > ValueOfRow(2).total
          /\ ValueOfRow(1).last_ymd < ValueOfRow(2).last_ymd
          /\ mAggs[e].total_orders = ValueOfRow(1).total
          /\ mAggs[e].last_purchase_ymd = ValueOfRow(2).last_ymd

\* The gross amounts C26 allows for an order: the current total when it is
\* present, else the total, else a subtotal that is present (0 for none).
PreferredGross(order) ==
    LET p == order.prices
    IN IF p.currentTotalPriceSet # NoMoney THEN {p.currentTotalPriceSet}
       ELSE IF p.totalPriceSet # NoMoney THEN {p.totalPriceSet}
       ELSE IF {p.subtotalPriceSet, p.currentSubtotalPriceSet} # {NoMoney}
            THEN {p.subtotalPriceSet, p.currentSubtotalPriceSet} \ {NoMoney}
       ELSE {0}

C26_Step ==
    \A i \in mLeft \ mLeft' :
       LET order == mIn.orders[i]
           email == normalize_email(order.email)
       IN Usable(order) =>
             \E gross \in PreferredGross(order) :
                mAggs'[email].money_units =
                   float_add(GetAgg(mAggs, email).money_units,
                             NetUnits(gross, mIn.config))

\* C26 as stated: the net amount a merged order adds is computed from the
\* current total rather than the original total when both are present, and
\* from a total rather than a subtotal when both are present, the fixed
\* deduction subtracted before the division by the VAT factor.
C26_GrossPrefersCurrentTotal == [][C26_Step]_vars

-----------------------------------------------------------------------------
(***************************************************************************)
(* run_pipeline: one action per step of the function.  pRun holds the      *)
(* arguments and the surroundings of the run: only, dry_run, last_date     *)
(* (yesterday), the config, the sheets the spreadsheet does not have, and  *)
(* how each feed's vendor answers.                                         *)
(***************************************************************************)

Day1 == MkYmd(2025, 10, 30)
Day2 == MkYmd(2025, 10, 31)
Day3 == MkYmd(2025, 11, 1)

\* Row r of a feed's sheet: its date cell under every date header, a
\* note, numbers elsewhere.
FeedRow(feed, header, date_cell, r) ==
    [k \in 1..Len(header) |->
        IF header[k] \in DateHeaders(feed) THEN date_cell
        ELSE IF header[k] = "Nota" THEN Cell("text", 100 + r)
        ELSE NumCell(r)]

\* The headers a feed's sheet may have: the row keys and a note column; the
\* date under another of its accepted names; a metric column missing; a
\* second date column, under another of the accepted names, before the row
\* keys; no date column.
FeedHeader(feed, kind) ==
    CASE kind = "exact" -> RowKeys(feed) \o <<"Nota">>
      [] kind = "twodates" ->
            <<IF feed = "shopify" THEN "Fecha" ELSE "Dia">> \o RowKeys(feed) \o <<"Nota">>
      [] kind = "alias" ->
            [k \in 1..Len(RowKeys(feed)) |->
                IF RowKeys(feed)[k] # DateKey(feed) THEN RowKeys(feed)[k]
                ELSE IF feed = "shopify" THEN "Fecha" ELSE "Dia"]
      [] kind = "lacking" -> SubSeq(RowKeys(feed), 1, Len(RowKeys(feed)) - 1)
      [] OTHER ->
            [k \in 1..Len(RowKeys(feed)) |->
                IF RowKeys(feed)[k] # DateKey(feed) THEN RowKeys(feed)[k] ELSE "Nota"]

FeedSheetOf(feed, kind, date_cells) ==
    Sheet(FeedHeader(feed, kind),
          [r \in 1..Len(date_cells) |->
              FeedRow(feed, FeedHeader(feed, kind), date_cells[r], r)])

\* The date cells of the rows: 2025-10-30 as text, 2025-11-01 as dd/mm/yyyy text
\* and as a date serial, text of the shape of a date that is none, nothing.
DateCells ==
    {IsoCell(Day1), Cell("dmy", Day3), NumCell(ToOrdinal(Day3) - SheetsEpochOrdinal),
     IsoCell(MkYmd(2025, 13, 45)), Blank}

FeedSheets(feed) ==
    {FeedSheetOf(feed, "exact", cells) :
        cells \in UNION {[1..n -> DateCells] : n \in 0..MaxFeedRows}}
    \cup {FeedSheetOf(feed, kind, <<IsoCell(Day1)>>) :
             kind \in {"alias", "lacking", "twodates", "nodate"}}
    \cup {EmptySheet}

\* The customers sheets of the pipeline: none yet, the columns of an older
\* version, and the current columns with a customer whose last purchase is
\* `last`.
PipeCustRow(header, last) ==
    [k \in 1..Len(header) |->
        IF header[k] = "__last_purchase_ymd" THEN IsoCell(last)
        ELSE CustRow(header, <<Cell("text", 11), "tracked">>, 1)[k]]

PipeCustSheets ==
    {EmptySheet,
     Sheet(DEFAULT_CONSOLIDADO_HEADER,
           <<CustRow(DEFAULT_CONSOLIDADO_HEADER, <<Cell("text", 21), "manual">>, 1)>>),
     Sheet(CustHeaderFull, <<PipeCustRow(CustHeaderFull, Day1)>>),
     Sheet(CustHeaderFull, <<PipeCustRow(CustHeaderFull, Day3)>>)}

\* The paid orders of the shop.
PipeShop ==
    <<[email |-> Cell("text", 11), day |-> Day2,
       prices |-> Prices(119, 119, 100, 100), discount |-> 5,
       name |-> 403, phone |-> 0],
      [email |-> Cell("text", 31), day |-> Day3,
       prices |-> Prices(238, 238, 200, 200), discount |-> 0,
       name |-> 401, phone |-> 402]>>

\* A feed that is up to date on last_date, one that is behind, one that is
\* behind and whose vendor is down.
FeedConditions == {"current", "behind", "down"}
ConditionSheet(feed, condition, last_date) ==
    IF feed = "customers"
    THEN Sheet(CustHeaderFull,
               <<PipeCustRow(CustHeaderFull,
                             IF condition = "current" THEN last_date ELSE Day1)>>)
    ELSE FeedSheetOf(feed, "exact",
                     <<IsoCell(IF condition = "current" THEN last_date ELSE Day1)>>)
ConditionVendor(condition) == IF condition = "down" THEN "down" ELSE "ok"

FirstRun(only, dry_run, last_date, config, missing, vendor) ==
    [only |-> only, dry_run |-> dry_run, last_date |-> last_date, config |-> config,
     missing |-> missing, vendor |-> vendor, run_no |-> 1]

\* The state at the call of run_pipeline: every feed enabled, each in one
\* of FeedConditions; or one feed enabled, over the sheets it may meet; or
\* two feeds enabled.
InitPipeline ==
    /\ pPc = "preflight"
    /\ pErrors = <<>>
    /\ pLog = <<>>
    /\ pOutcome = Running
    /\ pHist = NoHistory
    /\ \E dry_run \in BOOLEAN :
        \/ \E condition \in [FeedSet -> FeedConditions], config \in {FullConfig, ShippedConfig} :
              /\ pRun = FirstRun(AllTasks, dry_run, Day3, config, {},
                                 [f \in FeedSet |-> ConditionVendor(condition[f])])
              /\ pStore = [f \in FeedSet |-> ConditionSheet(f, condition[f], Day3)]
        \/ \E feed \in DateFeeds, vendor \in {"ok", "down"}, last_date \in {Day2, Day3},
              config \in {FullConfig, ShippedConfig, NoTokenConfig} :
              \E sheet \in FeedSheets(feed) :
                 /\ pRun = FirstRun(Only({feed}), dry_run, last_date, config, {},
                                    [f \in FeedSet |-> vendor])
                 /\ pStore = [f \in FeedSet |-> IF f = feed THEN sheet ELSE EmptySheet]
        \/ \E sheet \in PipeCustSheets, vendor \in {"ok", "down"},
              config \in {FullConfig, ShippedConfig, NoTokenConfig} :
              /\ pRun = FirstRun(Only({"customers"}), dry_run, Day3, config, {},
                                 [f \in FeedSet |-> vendor])
              /\ pStore = [f \in FeedSet |-> IF f = "customers" THEN sheet ELSE EmptySheet]
        \/ \E tasks \in {{"customers", "klaviyo"}, {"meta_ads", "google_ads"},
                         {"shopify", "meta"}} :
              \E condition \in [tasks -> FeedConditions], missing \in SUBSET tasks,
                 config \in {FullConfig, ShippedConfig} :
                 /\ pRun = FirstRun(Only(tasks), dry_run, Day3, config, missing,
                                    [f \in FeedSet |->
                                        IF f \in tasks THEN ConditionVendor(condition[f])
                                        ELSE "ok"])
                 /\ pStore = [f \in FeedSet |->
                                 IF f \in tasks THEN ConditionSheet(f, condition[f], Day3)
                                 ELSE EmptySheet]

\* Lines 55-74: the pre-flight read of the first enabled feed's header.
Preflight ==
    /\ pPc = "preflight"
    /\ IF PreflightRaises(pRun)
       THEN pPc' = "done" /\ pOutcome' = Propagated
       ELSE pPc' = TaskFrom(1, pRun.only) /\ pOutcome' = pOutcome
    /\ UNCHANGED <<pStore, pRun, pErrors, pLog, pHist>>
    /\ UNCHANGED exceptPipe

\* The end of a task's try/except: the store as the pass left it, the
\* exception appended to errors; the dates of the rows appended are kept
\* with the number of the run.
RecordPass(feed, pass) ==
    /\ pStore' = [pStore EXCEPT ![feed] = pass.sheet]
    /\ pErrors' = IF pass.raised THEN Append(pErrors, feed) ELSE pErrors
    /\ pLog' = Append(pLog, [feed |-> feed, before |-> pStore[feed], pass |-> pass])
    /\ pHist' =
         [appended |->
             pHist.appended \cup
             (IF feed # "customers" /\ "append_rows" \in SeqToSet(pass.calls)
              THEN {<<feed, pass.rows[i][DateKey(feed)].v, pRun.run_no>> :
                       i \in 1..Len(pass.rows)}
              ELSE {}),
          strayed |->
             \/ pHist.strayed
             \/ \E i \in 1..Len(pass.items) :
                   pass.items[i].day < pass.start \/ pass.items[i].day > pRun.last_date]

Task(feed) ==
    /\ RecordPass(feed,
                  IF feed = "customers"
                  THEN CustomersPass(pStore[feed], pRun, PipeShop, pRun.vendor[feed])
                  ELSE FeedPass(feed, pStore[feed], pRun, pRun.vendor[feed]))
    /\ pPc' = TaskFrom(PositionOf(feed) + 1, pRun.only)
    /\ UNCHANGED <<pRun, pOutcome>>
    /\ UNCHANGED exceptPipe

\* lines 76-113
ShopifyTask == pPc = "shopify" /\ Task("shopify")
\* lines 115-121
CustomersTask == pPc = "customers" /\ Task("customers")
\* lines 123-150
MetaTask == pPc = "meta" /\ Task("meta")
\* lines 152-182
MetaAdsTask == pPc = "meta_ads" /\ Task("meta_ads")
\* lines 184-219
GoogleAdsTask == pPc = "google_ads" /\ Task("google_ads")
\* lines 221-264
KlaviyoTask == pPc = "klaviyo" /\ Task("klaviyo")

\* Lines 266-267.
Finish ==
    /\ pPc = "finish"
    /\ pPc' = "done"
    /\ pOutcome' = Finished(pErrors)
    /\ UNCHANGED <<pStore, pRun, pErrors, pLog, pHist>>
    /\ UNCHANGED exceptPipe

InitPipe ==
    InitPipeline /\ WebIdle /\ ConsIdle /\ CustIdle /\ MergeIdle /\ LabelIdle /\ HttpIdle
NextPipe ==
    \/ Preflight
    \/ ShopifyTask
    \/ CustomersTask
    \/ MetaTask
    \/ MetaAdsTask
    \/ GoogleAdsTask
    \/ KlaviyoTask
    \/ Finish
SpecPipeline == InitPipe /\ [][NextPipe]_vars

-----------------------------------------------------------------------------
(***************************************************************************)
(* Claims about run_pipeline                                               *)
(***************************************************************************)

Fetches(pass) == {i \in 1..Len(pass.calls) : pass.calls[i] = "fetch"}
Writes(pass) ==
    {i \in 1..Len(pass.calls) :
        pass.calls[i] \in {"update_values", "batch_update_values", "append_rows"}}

\* A pass of a run that is not dry whose computed start is after the end.
StartAfterEnd(e) ==
    ~pRun.dry_run /\ e.pass.start # NoYmd /\ e.pass.start > pRun.last_date

\* C3 as stated: in a pass that is not dry, of any feed, whose computed
\* start date is later than the end date, the feed signals nothing-to-do,
\* fetches nothing from the vendor and writes nothing to the store.
C3_NoFetchNoWrite ==
    \A i \in 1..Len(pLog) :
       StartAfterEnd(pLog[i]) =>
          /\ pLog[i].pass.nothing_to_do
          /\ Fetches(pLog[i].pass) = {}
          /\ Writes(pLog[i].pass) = {}
          /\ pLog[i].pass.sheet = pLog[i].before

\* C3, amended: in such a pass the feed signals nothing-to-do, fetches
\* nothing from the vendor and appends no row; shopify, meta, meta_ads and
\* google_ads write nothing at all; klaviyo may have rewritten its date and
\* sum columns to consolidate duplicate dates (one batch update, before the
\* window is computed), and customers may write its header row and still
\* batch-updates the rows of the customers it has.
C3_NoFetchNoAppend ==
    \A i \in 1..Len(pLog) :
       StartAfterEnd(pLog[i]) =>
          /\ pLog[i].pass.nothing_to_do
          /\ ~pLog[i].pass.raised
          /\ Fetches(pLog[i].pass) = {}
          /\ "append_rows" \notin SeqToSet(pLog[i].pass.calls)
          /\ Len(TableRows(pLog[i].pass.sheet)) <= Len(TableRows(pLog[i].before))
          /\ pLog[i].feed \in {"shopify", "meta", "meta_ads", "google_ads"} =>
                /\ pLog[i].pass.calls = <<>>
                /\ pLog[i].pass.sheet = pLog[i].before
          /\ pLog[i].feed = "klaviyo" =>
                pLog[i].pass.calls \in {<<>>, <<"batch_update_values">>}
          /\ pLog[i].feed = "customers" =>
                SeqToSet(pLog[i].pass.calls) \subseteq {"update_values", "batch_update_values"}

\* A klaviyo pass that consolidated duplicate dates and then found nothing
\* to do.
C3_Witness ==
    /\ pPc = "done"
    /\ \E i \in 1..Len(pLog) :
          /\ pLog[i].feed = "klaviyo"
          /\ StartAfterEnd(pLog[i])
          /\ pLog[i].pass.nothing_to_do
          /\ pLog[i].pass.calls = <<"batch_update_values">>
          /\ pLog[i].pass.start = add_days(pLog[i].pass.max_saved, 1)

\* The enabled tasks in the order of FeedOrder, and of the passes made the
\* feeds and those that raised.
EnabledTasks(only) == SelectSeq(FeedOrder, LAMBDA task : Enabled(task, only))
Attempted == [i \in 1..Len(pLog) |-> pLog[i].feed]
Failed == SelectSeq(Attempted, LAMBDA feed : \E i \in 1..Len(pLog) :
                                                 pLog[i].feed = feed /\ pLog[i].pass.raised)

\* What C5 says of a run that has ended: every enabled feed was attempted,
\* in order, the failures were collected, and the run raised the aggregate
\* error with their number and the first of them as cause, or returned
\* when there was none.
EndsAsC5Says ==
    /\ Attempted = EnabledTasks(pRun.only)
    /\ pErrors = Failed
    /\ pOutcome = IF Failed = <<>> THEN Returned
                  ELSE [kind |-> "aggregate", count |-> Len(Failed), cause |-> Failed[1]]

\* C5 as stated: run_pipeline attempts every enabled feed in the fixed
\* order even when earlier feeds raise, collects their exceptions, raises
\* nothing before the last enabled feed has been attempted, and then raises
\* one aggregate error carrying the number of failed feeds with the first
\* failure as its cause; it returns normally when no feed failed.
C5_AllFeedsAttempted ==
    /\ pPc # "done" => pOutcome = Running
    /\ (pPc = "done" /\ pRun.run_no > 0) => EndsAsC5Says

\* C6: when dry_run is true no pass of run_pipeline, that of
\* sync_consolidado_customers included, makes a mutating store call
\* (update_values, batch_update_values, append_rows), and every sheet,
\* its header row included, is after the pass what it was before.
C6_DryRunWritesNothing ==
    pRun.dry_run =>
       \A i \in 1..Len(pLog) :
          /\ Writes(pLog[i].pass) = {}
          /\ pLog[i].pass.sheet = pLog[i].before

\* The column of the feed's sheet the watermark is read from (0 when the
\* sheet has no header row or no date header), and its cells.
WatermarkColumn(e) == FirstHeaderIn(e.before.header, DateHeaders(e.feed), 1)
WatermarkCells(e) ==
    {CellAt(e.before, r, WatermarkColumn(e)) : r \in 1..Len(e.before.rows)}

\* The calendar date a cell stands for: an ISO date, a d/m/y date, the date
\* part of a timestamp, a positive date serial; NoYmd for the others.
DateOfCell(c) ==
    CASE c.k \in {"iso", "dmy", "dmyh", "ts"} ->
            IF ValidDate(YearOf(c.v), MonthOf(c.v), DayOf(c.v)) THEN c.v ELSE NoYmd
      [] c.k = "num" -> sheets_serial_to_date(c.v)
      [] OTHER -> NoYmd

\* The passes that start with get_max_ymd_in_column on the sheet as it was
\* (klaviyo consolidates first unless the run is dry).
ReadsWatermarkFirst(e) ==
    /\ e.feed \in DateFeeds
    /\ e.feed \notin pRun.missing
    /\ pRun.config.complete
    /\ e.feed = "klaviyo" => pRun.dry_run
    /\ WatermarkColumn(e) # 0

\* C15 as stated: the max_date a pass gets from get_max_ymd_in_column is
\* the largest of the calendar dates the cells of the first date column
\* stand for, absent exactly when no cell stands for one, and is always a
\* calendar date.
C15_MaxIsLargestCalendarDate ==
    \A i \in 1..Len(pLog) :
       ReadsWatermarkFirst(pLog[i]) =>
          /\ pLog[i].pass.max_saved =
                MaxYmd({DateOfCell(c) : c \in WatermarkCells(pLog[i])})
          /\ pLog[i].pass.max_saved # NoYmd =>
                ValidDate(YearOf(pLog[i].pass.max_saved), MonthOf(pLog[i].pass.max_saved),
                          DayOf(pLog[i].pass.max_saved))

\* The sheet has a date column and no cell of it coerces.
NoAnchor(e) ==
    WatermarkColumn(e) # 0 /\ \A c \in WatermarkCells(e) : coerce_cell_to_ymd(c) = NoYmd

\* C16: a pass of a date-keyed feed whose sheet has no header row or no
\* date header raises without a fetch or an append; one whose date column
\* holds no date raises without a fetch or an append unless the feed is
\* meta_ads, whose pass goes on with the window starting at 2025-11-01; so
\* no pass but that of meta_ads fetches without a date in the column.
C16_NoFetchWithoutAnchor ==
    \A i \in 1..Len(pLog) :
       pLog[i].feed \in DateFeeds =>
          /\ WatermarkColumn(pLog[i]) = 0 =>
                /\ pLog[i].pass.raised
                /\ Fetches(pLog[i].pass) = {}
                /\ "append_rows" \notin SeqToSet(pLog[i].pass.calls)
          /\ (NoAnchor(pLog[i]) /\ pLog[i].feed # "meta_ads") =>
                /\ pLog[i].pass.raised
                /\ Fetches(pLog[i].pass) = {}
                /\ "append_rows" \notin SeqToSet(pLog[i].pass.calls)
          /\ (NoAnchor(pLog[i]) /\ pLog[i].feed = "meta_ads"
                 /\ "meta_ads" \notin pRun.missing /\ pRun.config.complete) =>
                /\ pLog[i].pass.start = META_ADS_FLOOR
                /\ pLog[i].pass.raised =>
                      (~pRun.config.tokens \/ pRun.vendor["meta_ads"] = "down")
                /\ (META_ADS_FLOOR <= pRun.last_date /\ pRun.config.tokens) =>
                      Fetches(pLog[i].pass) # {}

\* The ads sheet holds rows but no date: the pass fetched from 2025-11-01
\* on and appended.
C16_Witness ==
    \E i \in 1..Len(pLog) :
       /\ pLog[i].feed = "meta_ads"
       /\ WatermarkColumn(pLog[i]) # 0
       /\ pLog[i].before.rows # <<>>
       /\ NoAnchor(pLog[i])
       /\ pLog[i].pass.start = META_ADS_FLOOR
       /\ Fetches(pLog[i].pass) # {}
       /\ "append_rows" \in SeqToSet(pLog[i].pass.calls)
       /\ ~pLog[i].pass.raised

\* C17 as stated: a cell of the date column that is no date is left out of
\* the watermark and makes no pass raise: a pass on a sheet with the feed's
\* columns and a calendar date in its date column, with credentials and an
\* answering vendor, does not raise.
C17_MalformedCellNeverFails ==
    \A i \in 1..Len(pLog) :
       (/\ pLog[i].feed \in DateFeeds
        /\ pLog[i].feed \notin pRun.missing
        /\ pRun.config.complete /\ pRun.config.tokens
        /\ pRun.vendor[pLog[i].feed] = "ok"
        /\ pLog[i].before.header = FeedHeader(pLog[i].feed, "exact")
        /\ \E c \in WatermarkCells(pLog[i]) : DateOfCell(c) # NoYmd) =>
          ~pLog[i].pass.raised

-----------------------------------------------------------------------------
(***************************************************************************)
(* Specification SpecFeed: run_pipeline run again and again with one       *)
(* date-keyed feed enabled, the days passing and the vendor answering in   *)
(* different ways.                                                         *)
(***************************************************************************)

\* How a run goes: dry or not, and what the vendor does.
RunModes ==
    {[dry_run |-> FALSE, vendor |-> "ok"], [dry_run |-> TRUE, vendor |-> "ok"],
     [dry_run |-> FALSE, vendor |-> "silent"], [dry_run |-> FALSE, vendor |-> "down"],
     [dry_run |-> FALSE, vendor |-> "stray"]}

\* The sheet of the feed before the first run.
InitFeeds ==
    /\ pPc = "done"
    /\ pErrors = <<>>
    /\ pLog = <<>>
    /\ pOutcome = Returned
    /\ pHist = NoHistory
    /\ \E feed \in DateFeeds :
          \E sheet \in FeedSheets(feed) :
             /\ pRun = [only |-> Only({feed}), dry_run |-> FALSE, last_date |-> Day2,
                        config |-> FullConfig, missing |-> {},
                        vendor |-> [f \in FeedSet |-> "ok"], run_no |-> 0]
             /\ pStore = [f \in FeedSet |-> IF f = feed THEN sheet ELSE EmptySheet]

\* The next call of run_pipeline, the same day or the day after.
NewRun ==
    /\ pPc = "done"
    /\ pRun.run_no < MaxRuns
    /\ \E advance \in {0, 1}, mode \in RunModes :
          pRun' = [pRun EXCEPT !.run_no = @ + 1,
                               !.last_date = add_days(@, advance),
                               !.dry_run = mode.dry_run,
                               !.vendor = [f \in FeedSet |-> mode.vendor]]
    /\ pPc' = "preflight"
    /\ pErrors' = <<>>
    /\ pLog' = <<>>
    /\ pOutcome' = Running
    /\ UNCHANGED <<pStore, pHist>>
    /\ UNCHANGED exceptPipe

InitFeed ==
    InitFeeds /\ WebIdle /\ ConsIdle /\ CustIdle /\ MergeIdle /\ LabelIdle /\ HttpIdle
NextFeed ==
    \/ NewRun
    \/ Preflight
    \/ ShopifyTask
    \/ MetaTask
    \/ MetaAdsTask
    \/ GoogleAdsTask
    \/ KlaviyoTask
    \/ Finish
SpecFeed == InitFeed /\ [][NextFeed]_vars

-----------------------------------------------------------------------------
(***************************************************************************)
(* Claims about the runs of one date-keyed feed (SpecFeed)                 *)
(***************************************************************************)

\* The largest date the sheet holds in a column under one of the feed's
\* date headers, NoYmd when it holds none.
MaxDatePresent(feed, sheet) ==
    MaxYmd({coerce_cell_to_ymd(CellAt(sheet, r, c)) :
                 r \in 1..Len(sheet.rows),
                 c \in {k \in 1..Len(sheet.header) : sheet.header[k] \in DateHeaders(feed)}})

RowDates(feed, pass) == {pass.rows[i][DateKey(feed)].v : i \in 1..Len(pass.rows)}

\* C4 as stated: over runs in which the vendor returned only records dated
\* inside the window asked for, the window of every date-keyed feed starts
\* the day after the largest date of its table, no run appends a row dated
\* on or before the largest date the table held, and no date gets rows from
\* two runs.
C4_NoDateAppendedTwice ==
    ~pHist.strayed =>
       /\ \A i \in 1..Len(pLog) :
             /\ (pLog[i].pass.start # NoYmd
                    /\ MaxDatePresent(pLog[i].feed, pLog[i].before) # NoYmd) =>
                   pLog[i].pass.start = add_days(MaxDatePresent(pLog[i].feed, pLog[i].before), 1)
             /\ "append_rows" \in SeqToSet(pLog[i].pass.calls) =>
                   \A d \in RowDates(pLog[i].feed, pLog[i].pass) :
                      d > MaxDatePresent(pLog[i].feed, pLog[i].before)
       /\ \A a, b \in pHist.appended : (a[1] = b[1] /\ a[2] = b[2]) => a[3] = b[3]

-----------------------------------------------------------------------------

Init ==
    InitWebhook /\ ConsIdle /\ CustIdle /\ PipeIdle /\ MergeIdle /\ LabelIdle /\ HttpIdle
Next == NextWebhook
Spec == Init /\ [][Next]_vars

-----------------------------------------------------------------------------
(***************************************************************************)
(* Claims about the webhook store (checked under Spec)                     *)
(***************************************************************************)

RECURSIVE SumOver(_, _)
SumOver(f, S) ==
    IF S = {} THEN 0
    ELSE LET x == CHOOSE y \in S : TRUE IN f[x] + SumOver(f, S \ {x})

\* try_record_cart calls that have returned, per token and per result.
CartCalls(t) ==
    {h \in Deliveries : deliveries[h].endpoint = "carts_created"
                         /\ deliveries[h].token = t
                         /\ deliveries[h].recorded \in {"true", "false"}}
CartCallsTrue(t) == {h \in CartCalls(t) : deliveries[h].recorded = "true"}

InFlight(h) == deliveries[h].pc \notin {"idle", "done"}

AddToCartTotal ==
    SumOver([d \in WebDates |-> daily_counts[<<d, "add_to_cart">>]], WebDates)

RecordedTokens == {t \in Tokens : seen_carts[t] # NoDate}

\* A try_record_cart call of delivery h returns in this step.
Returns(h) ==
    deliveries[h].recorded = "none" /\ deliveries'[h].recorded \in {"true", "false"}

C1_Step ==
    \A h \in Deliveries :
        Returns(h) =>
            (deliveries'[h].recorded = "true") = (seen_carts[deliveries[h].token] = NoDate)

C1_State ==
    ~evicted => \A t \in Tokens :
        CartCalls(t) # {} => Cardinality(CartCallsTrue(t)) = 1

\* The try_record_cart calls on token t that are over, returned or raised,
\* and whether one is still under way.
CartCallsOver(t) ==
    {h \in Deliveries : deliveries[h].endpoint = "carts_created"
                         /\ deliveries[h].token = t
                         /\ deliveries[h].recorded # "none"}
CartCallUnderWay(t) ==
    \E h \in Deliveries : deliveries[h].token = t /\ deliveries[h].pc \in {"insert", "commit", "close"}

\* C1 as stated: of the try_record_cart calls racing on one token, in any
\* interleaving, exactly one returns True and every other returns False; a
\* later call on an existing record returns False.
C1_OneTrueOthersFalse ==
    /\ [](~evicted => \A t \in Tokens :
             (Cardinality(CartCallsOver(t)) >= 2 /\ ~CartCallUnderWay(t)) =>
                /\ Cardinality(CartCallsTrue(t)) = 1
                /\ CartCallsOver(t) = CartCalls(t))
    /\ [][C1_Step]_vars

\* C2 as stated: add_to_cart is incremented only by a delivery whose
\* try_record_cart returned True; without eviction the add_to_cart counters
\* never sum to more than the number of recorded tokens, and to exactly that
\* number once no handler is in flight.
C2_CountedOncePerToken ==
    /\ \A h \in Deliveries :
          (deliveries[h].endpoint = "carts_created"
              /\ deliveries[h].pc \in {"increment", "count"})
              => deliveries[h].recorded = "true"
    /\ ~evicted =>
          /\ AddToCartTotal <= Cardinality(RecordedTokens)
          /\ (\A h \in Deliveries : ~InFlight(h))
                => AddToCartTotal = Cardinality(RecordedTokens)

\* C18: a cleanup_old_carts(before_date) call deletes exactly the records
\* of seen_carts dated before before_date and returns their number; the
\* records dated on or after it and every counter of daily_counts stay as
\* they were.  (The call holds the write lock from its DELETE to its
\* commit, where the deletion takes effect and the number is returned.)
C18_Step ==
    /\ (writeLock # CleanupConn /\ writeLock' = CleanupConn) =>
          seen_carts' = seen_carts /\ daily_counts' = daily_counts
    /\ (writeLock = CleanupConn /\ writeLock' # CleanupConn) =>
          /\ before_date' = before_date
          /\ \A t \in Tokens :
                seen_carts'[t] = IF seen_carts[t] # NoDate /\ seen_carts[t] < before_date
                                 THEN NoDate ELSE seen_carts[t]
          /\ deleted' = Cardinality({t \in Tokens : seen_carts[t] # NoDate
                                                      /\ seen_carts[t] < before_date})
          /\ daily_counts' = daily_counts
C18_CleanupDeletesOlder == [][C18_Step]_vars

\* Of two recorded and counted carts the cleanup deleted the older and
\* kept the one dated on the cutoff.
C18_Witness ==
    /\ deleted = 1
    /\ writeLock # CleanupConn
    /\ \E t1, t2 \in Tokens :
          /\ seen_carts[t1] = NoDate /\ CartCallsTrue(t1) # {}
          /\ seen_carts[t2] = before_date
    /\ AddToCartTotal = 2

\* C19 as stated: over any sequence of try_record_cart and
\* cleanup_old_carts calls at most one try_record_cart call per token
\* returns True.
C19_RecordedOnceEver ==
    \A t \in Tokens : Cardinality(CartCallsTrue(t)) <= 1

\* A try_record_cart call on a token whose record a cleanup has deleted
\* returns True again, and the record is there again.
C19_Step ==
    \A h \in Deliveries :
       (/\ Returns(h)
        /\ evictions[deliveries[h].token] > 0
        /\ seen_carts[deliveries[h].token] = NoDate) =>
          /\ deliveries'[h].recorded = "true"
          /\ seen_carts'[deliveries[h].token] # NoDate

\* C19, amended: over any sequence of try_record_cart and cleanup_old_carts
\* calls, at most one try_record_cart call on a token returns True for as
\* long as cleanup_old_carts has not deleted that token's record, whatever
\* happened to the records of other tokens: the calls on a token that have
\* returned True are one for every deletion of its record by a cleanup, and
\* one more when the token has a record.  Once a cleanup has deleted a
\* token's record, the next call on the token that returns returns True
\* again.
C19_RecordedOncePerRecord ==
    /\ [](\A t \in Tokens :
             /\ Cardinality(CartCallsTrue(t)) =
                   evictions[t] + (IF seen_carts[t] # NoDate THEN 1 ELSE 0)
             /\ evictions[t] = 0 => Cardinality(CartCallsTrue(t)) <= 1)
    /\ [][C19_Step]_vars

\* A cleanup deleted the record of one token and kept that of another: a
\* later call on the first returned True again, and the second, whose
\* record no cleanup deleted, has one call that returned True.
C19_Witness ==
    /\ writeLock # CleanupConn
    /\ \E t1, t2 \in Tokens :
          /\ t1 # t2
          /\ evictions[t1] = 1 /\ evictions[t2] = 0
          /\ seen_carts[t1] # NoDate /\ seen_carts[t2] # NoDate
          /\ Cardinality(CartCallsTrue(t1)) = 2
          /\ Cardinality(CartCallsTrue(t2)) = 1

\* The checkout_created deliveries whose handler has returned, and of these
\* the ones not turned away with 401 (signature) or 400 (body not JSON).
CheckoutsDone ==
    {h \in Deliveries : deliveries[h].endpoint = "checkout_created"
                         /\ deliveries[h].pc = "done"}
CheckoutsAccepted == {h \in CheckoutsDone : deliveries[h].status \notin {400, 401}}

BeginCheckoutTotal ==
    SumOver([d \in WebDates |-> daily_counts[<<d, "begin_checkout">>]], WebDates)

CheckoutsInFlight ==
    {h \in Deliveries : deliveries[h].endpoint = "checkout_created" /\ InFlight(h)}

\* C29 as stated: every checkout_created delivery that passed the signature
\* verification and parsed as JSON has raised the begin_checkout counter of
\* its date by exactly 1, without deduplication, and the deliveries
\* rejected with 401 or 400 have changed no counter: once the handlers have
\* returned, the begin_checkout counters add up to the number of deliveries
\* not rejected with 401 or 400.
C29_EveryVerifiedCheckoutCounts ==
    CheckoutsInFlight = {} => BeginCheckoutTotal = Cardinality(CheckoutsAccepted)

=============================================================================
